---- MODULE Spec2Model ----
(***************************************************************************)
(* uplink-monitor server (server.ts): the public-IP resolver with its      *)
(* cache, rate limiters and provider fallback; the ISP change detector and *)
(* its swap table; the sampling loop that assembles a snapshot and         *)
(* publishes it as the process-wide current metrics; the periodic gateway  *)
(* probe and its log; the dashboard (App.tsx) at the other end of the      *)
(* WebSocket.                                                              *)
(*                                                                         *)
(* JavaScript runs one callback at a time, so an action is the code        *)
(* between two awaits: a handler that awaits is one action per segment,    *)
(* and the segments of different invocations interleave.                   *)
(*                                                                         *)
(* Time is counted in seconds: Date.now() is `clock`, 1000 ms is 1.        *)
(***************************************************************************)
EXTENDS Integers, Sequences, FiniteSets, TLC

VARIABLES
  clock,          \* Date.now(), in seconds
  cachedIpInfo,   \* NULL or [data, timestamp]
  lastCall,       \* lastIpApiCall, lastFreeIpApiCall, lastIpWhoIsCall, lastIpifyCall
  call,           \* the getPublicIpInfo() invocations in flight, one per slot
  lastResolve,    \* what the getPublicIpInfo() that returned last did and gave
  issued,         \* per service, when its function last issued its request,
                  \* kept while that is less than the service's limit ago
  server,         \* "init" until startServer has run its initialisation, then "up"
  pool,           \* TRUE when `pool` holds a connected pool, FALSE when undefined
  swap,           \* the rows of dbo.swap, in the order of their timestamps
  det,            \* the checkAndLogIspChange() invocations in flight, one per slot
  lastIspCheck,   \* Date.now() of the sample that last ran the change detector
  currentMetrics, \* the published snapshot, or NULL
  samplingTimers, \* the setInterval timers startContinuousMonitoring has set
  smp,            \* the getNetworkMetrics() invocations in flight, one per slot
  started,        \* getNetworkMetrics() invocations so far
  lastReturn,     \* what the getNetworkMetrics() that returned last had and gave
  subs,           \* the WebSocket connections of the dashboards, one per slot
  retry,          \* getMetricsWithRetry() invocations, one per slot
  gatewayLog,     \* the rows of dbo.gateway_log, in the order of their ids
  gw,             \* the logGatewayStatus() invocation in flight, and the runs so far
  lastRun,        \* what the logGatewayStatus() that returned last did
  reply,          \* the last response of GET /api/gateway-status
  client,         \* the dashboards in the browser, one per slot
  network         \* the network the host is attached to: its ISP and address

resolverVars == <<cachedIpInfo, lastCall, call, lastResolve, issued>>
storeVars == <<server, pool, swap>>
detectorVars == <<swap, det>>
samplerVars ==
  <<lastIspCheck, currentMetrics, samplingTimers, smp, started, lastReturn>>
gatewayVars == <<gatewayLog, gw, lastRun, reply>>
vars ==
  <<clock, cachedIpInfo, lastCall, call, lastResolve, issued, server, pool,
    swap, det,
    lastIspCheck, currentMetrics, samplingTimers, smp, started, lastReturn,
    subs, retry, gatewayLog, gw, lastRun, reply, client, network>>

----------------------------------------------------------------------------
(* Bounds of the model *)

\* runs of logGatewayStatus() explored
MaxProbes == 3
\* seconds of Date.now() explored after the process has started
MaxTime == 3
\* rows dbo.swap may hold
MaxSwap == 3
\* getNetworkMetrics() invocations explored
MaxSamples == 3

----------------------------------------------------------------------------
(* Configuration and constants of server.ts *)

\* process.env.CACHE_DURATION, here 3000 ms (the default is '30000')
CACHE_DURATION == 3
\* the four entries of API_RATE_LIMITS, 1000 ms each
API_RATE_LIMITS ==
  [ipApi |-> 1, freeIpApi |-> 1, ipWhoIs |-> 1, ipify |-> 1]

\* the keys of apiServices, in the order getPublicIpInfo tries them
apiServices == <<"ipApi", "freeIpApi", "ipWhoIs", "ipify">>
Providers == {apiServices[i] : i \in 1..Len(apiServices)}

\* the `source` each provider function writes into its record
SourceOf ==
  [ipApi |-> "ip-api.com", freeIpApi |-> "freeipapi.com",
   ipWhoIs |-> "ipwho.is", ipify |-> "ipify.org + ipapi.co"]

NULL == [null |-> TRUE]

\* the public identities a provider may report: (isp, ip)
Networks == {<<"Acme", "1.2.3.4">>, <<"Globex", "5.6.7.8">>}

\* the record a provider function returns; the fields the server reads
ProviderRecord(p, net) ==
  [ip |-> net[2], isp |-> net[1], source |-> SourceOf[p]]

\* the mock record getPublicIpInfo returns when nothing else is left
MockRecord ==
  [ip |-> "000.000.000.000", isp |-> "Unknown", source |-> "mock"]

\* Date.now() when the process starts: far beyond every interval, so that the
\* timestamps that start at 0 (lastIpApiCall, ...) are all long past
BootTime == CACHE_DURATION + 1

\* the slots of getPublicIpInfo() invocations that may be in flight together
Callers == {"r1", "r2"}

IdleCall ==
  [pc |-> "idle", now |-> 0, idx |-> 0, wake |-> 0,
   contacted |-> <<>>, failed |-> {}, seen |-> NULL]

----------------------------------------------------------------------------
(* getPublicIpInfo and the four provider functions *)

\* (variant: the entry is still fresh when its age is CACHE_DURATION)
CacheFreshAtExpiry(cache, now) ==
  cache # NULL /\ (now - cache.timestamp) <= CACHE_DURATION

\* (variant: the entry expires a second early)
CacheFreshExpiresEarly(cache, now) ==
  cache # NULL /\ (now - cache.timestamp) < CACHE_DURATION - 1

\* `cachedIpInfo && (now - cachedIpInfo.timestamp) < CACHE_DURATION`
CacheFresh(cache, now) ==
  cache # NULL /\ (now - cache.timestamp) < CACHE_DURATION

\* (variant: one last-call time shared by the four services)
EnterProviderSharedLimiter(rec, i) ==
  LET p == apiServices[i]
      latest == CHOOSE t \in {lastCall[q] : q \in Providers} :
                  \A q \in Providers : lastCall[q] <= t
      timeSinceLastCall == clock - latest
  IN IF timeSinceLastCall < API_RATE_LIMITS[p]
       THEN [rec EXCEPT !.pc = "sleep", !.idx = i,
                        !.wake = clock + (API_RATE_LIMITS[p] - timeSinceLastCall)]
       ELSE [rec EXCEPT !.pc = "request", !.idx = i, !.wake = 0,
                        !.contacted = Append(@, p)]

\* The head of a provider function, entered by invocation `rec` for the
\* provider at index i: either the rate limiter puts the caller to sleep, or
\* the request is issued at once.
EnterProvider(rec, i) ==
  LET p == apiServices[i]
      timeSinceLastCall == clock - lastCall[p]
  IN IF timeSinceLastCall < API_RATE_LIMITS[p]
       THEN [rec EXCEPT !.pc = "sleep", !.idx = i,
                        !.wake = clock + (API_RATE_LIMITS[p] - timeSinceLastCall)]
       ELSE [rec EXCEPT !.pc = "request", !.idx = i, !.wake = 0,
                        !.contacted = Append(@, p)]

\* The invocation went from `before` to `after` in a step: when the step
\* issued the request of a provider function, the time is noted for that
\* service.
RequestIssued(before, after) ==
  /\ after.pc = "request"
  /\ ~(before.pc = "request" /\ before.idx = after.idx)

IssuedAfter(before, after) ==
  IF RequestIssued(before, after)
    THEN [issued EXCEPT ![apiServices[after.idx]] = clock]
    ELSE issued

\* (variant: the expired entry is not used)
FallbackMockOnly(cache) == MockRecord

\* What getPublicIpInfo returns once every service has failed.
Fallback(cache) == IF cache # NULL THEN cache.data ELSE MockRecord

\* (variant: the entry is stored with the mock record for data)
CacheEntrySentinel(data, rec) == [data |-> MockRecord, timestamp |-> rec.now]

\* (variant: the entry is stored without the time)
CacheEntryWithoutTimestamp(data, rec) == [data |-> data, timestamp |-> 0]

\* The cache entry a successful fetch stores: the `now` of the invocation.
CacheEntry(data, rec) == [data |-> data, timestamp |-> rec.now]

\* getPublicIpInfo returns `result` to its caller. lastResolve keeps what the
\* invocation did: when it was invoked and the timestamp of the cache entry
\* it found then, the services it contacted, those that failed and the one
\* it got the record from.
Resolved(rec, result, fetched) ==
  [now |-> rec.now, result |-> result, fetched |-> fetched,
   contacted |-> rec.contacted, failed |-> rec.failed, seen |-> rec.seen]

\* the timestamp of a cache entry, without its data
Stamp(entry) ==
  IF entry = NULL THEN NULL ELSE [timestamp |-> entry.timestamp]

\* (variant: after an error the loop leaves out the next service)
OnServiceErrorSkipsNext(rec) ==
  LET r == [rec EXCEPT !.failed = @ \cup {apiServices[rec.idx]}]
  IN IF rec.idx + 1 < Len(apiServices)
       THEN <<EnterProvider(r, rec.idx + 2), NULL>>
       ELSE <<IdleCall, Resolved(r, Fallback(cachedIpInfo), "none")>>

\* (variant: the error of a service is not caught)
OnServiceErrorRethrow(rec) ==
  <<[rec EXCEPT !.pc = "thrown", !.failed = @ \cup {apiServices[rec.idx]}],
    NULL>>

\* The catch block of the loop over apiServices: the error is logged and the
\* loop continues with the next service, or falls through to the fallback.
\* The first component is the invocation after the step, the second what it
\* returns, if it returns.
OnServiceError(rec) ==
  LET r == [rec EXCEPT !.failed = @ \cup {apiServices[rec.idx]}]
  IN IF rec.idx < Len(apiServices)
       THEN <<EnterProvider(r, rec.idx + 1), NULL>>
       ELSE <<IdleCall, Resolved(r, Fallback(cachedIpInfo), "none")>>

\* getPublicIpInfo is invoked: up to the first await. A fresh cache entry is
\* returned at once.
GetPublicIpInfoInvoked(c) ==
  /\ call[c].pc = "idle"
  /\ LET rec == [IdleCall EXCEPT !.now = clock, !.seen = Stamp(cachedIpInfo)]
     IN IF CacheFresh(cachedIpInfo, clock)
          THEN /\ lastResolve' = Resolved(rec, cachedIpInfo.data, "none")
               /\ UNCHANGED <<call, issued>>
          ELSE /\ call' = [call EXCEPT ![c] = EnterProvider(rec, 1)]
               /\ issued' = IssuedAfter(rec, EnterProvider(rec, 1))
               /\ UNCHANGED lastResolve

\* getPublicIpInfo invoked on its own, by a caller the model does not follow
GetPublicIpInfo(c) ==
  /\ GetPublicIpInfoInvoked(c)
  /\ UNCHANGED <<gatewayVars, client, network, subs, retry, clock, cachedIpInfo, lastCall, server, pool, detectorVars, samplerVars>>

\* The rate limiter's setTimeout fires and the request is issued.
RateLimitWaitEnds(c) ==
  /\ call[c].pc = "sleep"
  /\ clock >= call[c].wake
  /\ call' = [call EXCEPT ![c] =
       [@ EXCEPT !.pc = "request", !.wake = 0,
                 !.contacted = Append(@, apiServices[call[c].idx])]]
  /\ issued' = [issued EXCEPT ![apiServices[call[c].idx]] = clock]
  /\ UNCHANGED <<gatewayVars, client, network, subs, retry, clock, cachedIpInfo, lastCall, lastResolve, server, pool, detectorVars, samplerVars>>

\* getIpifyInfo: api.ipify.org has answered, the lookup at ipapi.co is issued.
IpifyAddressReceived(c) ==
  /\ call[c].pc = "request"
  /\ apiServices[call[c].idx] = "ipify"
  /\ call' = [call EXCEPT ![c] = [@ EXCEPT !.pc = "request2"]]
  /\ UNCHANGED <<gatewayVars, client, network, subs, retry, clock, cachedIpInfo, lastCall, lastResolve, issued, server, pool, detectorVars, samplerVars>>

\* The request of a provider function is answered with a usable payload: the
\* function notes the time of the call and returns its record, which
\* getPublicIpInfo caches and returns.
AwaitingAnswer(c) ==
  \/ call[c].pc = "request" /\ apiServices[call[c].idx] # "ipify"
  \/ call[c].pc = "request2"

ProviderSucceeds(c) ==
  /\ AwaitingAnswer(c)
  /\ \E net \in Networks :
       LET p == apiServices[call[c].idx]
           data == ProviderRecord(p, net)
       IN /\ lastCall' = [lastCall EXCEPT ![p] = clock]
          /\ cachedIpInfo' = CacheEntry(data, call[c])
          /\ lastResolve' = Resolved(call[c], data, p)
          /\ call' = [call EXCEPT ![c] = IdleCall]
  /\ UNCHANGED <<gatewayVars, client, network, subs, retry, clock, issued, server, pool, detectorVars, samplerVars>>

\* A request errors, times out, or answers with a payload the function cannot
\* read (for ip-api.com: a status other than 'success'): the function throws.
ProviderFails(c) ==
  /\ call[c].pc \in {"request", "request2"}
  /\ LET next == OnServiceError(call[c])
     IN /\ call' = [call EXCEPT ![c] = next[1]]
        /\ lastResolve' = IF next[2] # NULL THEN next[2] ELSE lastResolve
        /\ issued' = IssuedAfter(call[c], next[1])
  /\ UNCHANGED <<gatewayVars, client, network, subs, retry, clock, cachedIpInfo, lastCall, server, pool, detectorVars, samplerVars>>

\* `undefined`: what reading a property the payload does not have gives
Missing == "undefined"

\* The record a provider function other than getIpApiInfo builds from a
\* payload that came with HTTP 200 but carries no address and no ISP (for
\* instance an error object): no field is checked, each is copied as it is,
\* and getFreeIpApiInfo puts 'N/A' for the ISP.
IncompleteRecord(p) ==
  [ip |-> Missing,
   isp |-> IF p = "freeIpApi" THEN "N/A" ELSE Missing,
   source |-> SourceOf[p]]

\* The last request of getFreeIpApiInfo, getIpWhoIsInfo or getIpifyInfo is
\* answered with such a payload: the function notes the time of the call and
\* returns its record, which getPublicIpInfo caches and returns.
ProviderAnswersIncomplete(c) ==
  /\ AwaitingAnswer(c)
  /\ apiServices[call[c].idx] # "ipApi"
  /\ LET p == apiServices[call[c].idx]
         data == IncompleteRecord(p)
     IN /\ lastCall' = [lastCall EXCEPT ![p] = clock]
        /\ cachedIpInfo' = CacheEntry(data, call[c])
        /\ lastResolve' = Resolved(call[c], data, p)
        /\ call' = [call EXCEPT ![c] = IdleCall]
  /\ UNCHANGED <<gatewayVars, client, network, subs, retry, clock, issued, server, pool, detectorVars, samplerVars>>

\* getFreeIpApiInfo or getIpWhoIsInfo is answered with a payload that lacks
\* the object the function reads into (timeZones, connection, timezone): the
\* time of the call is noted first, then building the record throws.
ProviderAnswersUnreadable(c) ==
  /\ call[c].pc = "request"
  /\ apiServices[call[c].idx] \in {"freeIpApi", "ipWhoIs"}
  /\ LET p == apiServices[call[c].idx]
         next == OnServiceError(call[c])
     IN /\ lastCall' = [lastCall EXCEPT ![p] = clock]
        /\ call' = [call EXCEPT ![c] = next[1]]
        /\ lastResolve' = IF next[2] # NULL THEN next[2] ELSE lastResolve
        /\ issued' = IssuedAfter(call[c], next[1])
  /\ UNCHANGED <<gatewayVars, client, network, subs, retry, clock, cachedIpInfo, server, pool, detectorVars, samplerVars>>

\* A second passes.
Tick ==
  /\ clock < BootTime + MaxTime
  /\ clock' = clock + 1
  /\ issued' = [p \in Providers |->
                  IF clock + 1 - issued[p] < API_RATE_LIMITS[p]
                    THEN issued[p] ELSE 0]
  /\ UNCHANGED <<gatewayVars, client, network, subs, retry, cachedIpInfo, lastCall, call, lastResolve, server, pool,
                 detectorVars, samplerVars>>

----------------------------------------------------------------------------
(* startServer, the store and checkAndLogIspChange *)

ISPs == {"Acme", "Globex"}
IPs == {"1.2.3.4", "5.6.7.8"}

\* the slots of checkAndLogIspChange() invocations
Invocations == {"d1", "d2"}

\* before: the table when the function was invoked. ok: no error has landed
\* in the catch block. failed: the statement that was awaited when one did.
IdleDet ==
  [pc |-> "idle", newIsp |-> "", newIp |-> "", lastLog |-> <<>>,
   before |-> <<>>, ok |-> TRUE, failed |-> ""]

\* startServer: initializePool and initializeDatabase log their errors and
\* return, so the server goes on with `pool` connected or left undefined.
StartServer ==
  /\ server = "init"
  /\ server' = "up"
  /\ pool' \in BOOLEAN
  /\ UNCHANGED <<gatewayVars, client, network, subs, retry, clock, resolverVars, detectorVars, samplerVars>>

\* SELECT TOP 1 isp, ip FROM swap ORDER BY timestamp DESC: the recordset
SelectLastLog(rows) ==
  IF rows = <<>> THEN <<>> ELSE <<rows[Len(rows)]>>

\* (variant: every observation counts as a change)
IspChangedAlways(lastLog, newIsp) == TRUE

\* `!lastLog.recordset.length || lastLog.recordset[0].isp !== newIsp`
IspChanged(lastLog, newIsp) ==
  lastLog = <<>> \/ lastLog[1].isp # newIsp

\* (variant: the UPDATE has the comparison of its WHERE clause inverted)
MarkInactiveOthers(rows, oldIsp) ==
  [i \in 1..Len(rows) |->
     IF rows[i].isp # oldIsp /\ rows[i].uplink = 1
       THEN [rows[i] EXCEPT !.uplink = 0]
       ELSE rows[i]]

\* (variant: the UPDATE matches no row)
MarkInactiveNone(rows, oldIsp) == rows

\* UPDATE swap SET uplink = 0 WHERE isp = @oldIsp AND uplink = 1
MarkInactive(rows, oldIsp) ==
  [i \in 1..Len(rows) |->
     IF rows[i].isp = oldIsp /\ rows[i].uplink = 1
       THEN [rows[i] EXCEPT !.uplink = 0]
       ELSE rows[i]]

\* (variant: the INSERT replaces the rows of the table)
InsertSwapReplacing(rows, isp, ip) ==
  <<[isp |-> isp, ip |-> ip, uplink |-> 1]>>

\* (variant: the row is inserted with uplink = 0)
InsertSwapInactive(rows, isp, ip) ==
  Append(rows, [isp |-> isp, ip |-> ip, uplink |-> 0])

\* INSERT INTO swap (isp, ip, uplink) VALUES (@isp, @ip, 1)
InsertSwap(rows, isp, ip) ==
  Append(rows, [isp |-> isp, ip |-> ip, uplink |-> 1])

\* (variant: the catch block throws the error on)
DetCaughtRethrow(rec) == [rec EXCEPT !.pc = "thrown", !.ok = FALSE]

\* The catch block of checkAndLogIspChange: the error is logged, the
\* function returns.
DetCaught(rec) == [rec EXCEPT !.pc = "done", !.ok = FALSE]

\* checkAndLogIspChange(newIsp, newIp) is invoked: with no pool it throws into
\* its own catch block, otherwise the SELECT is sent.
DetInvoked(newIsp, newIp) ==
  LET rec == [IdleDet EXCEPT !.newIsp = newIsp, !.newIp = newIp,
                             !.before = swap]
  IN IF pool THEN [rec EXCEPT !.pc = "select"] ELSE DetCaught(rec)

CheckAndLogIspChange(d, newIsp, newIp) ==
  /\ server = "up"
  /\ det[d].pc = "idle"
  /\ Len(swap) < MaxSwap
  /\ det' = [det EXCEPT ![d] = DetInvoked(newIsp, newIp)]
  /\ UNCHANGED <<gatewayVars, client, network, subs, retry, clock, resolverVars, storeVars, samplerVars>>

\* The SELECT answers: the function decides between nothing to do, the
\* UPDATE of the previous ISP's rows, and (empty table) the INSERT.
SelectAnswers(d) ==
  /\ det[d].pc = "select"
  /\ LET lastLog == SelectLastLog(swap)
     IN det' = [det EXCEPT ![d] =
          [@ EXCEPT !.lastLog = lastLog,
                    !.pc = IF IspChanged(lastLog, det[d].newIsp)
                             THEN (IF lastLog # <<>> THEN "update" ELSE "insert")
                             ELSE "done"]]
  /\ UNCHANGED <<gatewayVars, client, network, subs, retry, clock, resolverVars, storeVars, samplerVars>>

\* The UPDATE is executed and answers; the INSERT is sent.
UpdateAnswers(d) ==
  /\ det[d].pc = "update"
  /\ swap' = MarkInactive(swap, det[d].lastLog[1].isp)
  /\ det' = [det EXCEPT ![d] = [@ EXCEPT !.pc = "insert"]]
  /\ UNCHANGED <<gatewayVars, client, network, subs, retry, clock, resolverVars, server, pool, samplerVars>>

\* The INSERT is executed and answers.
InsertAnswers(d) ==
  /\ det[d].pc = "insert"
  /\ swap' = InsertSwap(swap, det[d].newIsp, det[d].newIp)
  /\ det' = [det EXCEPT ![d] = [@ EXCEPT !.pc = "done"]]
  /\ UNCHANGED <<gatewayVars, client, network, subs, retry, clock, resolverVars, server, pool, samplerVars>>

\* A query of the invocation fails (connection lost, timeout): the statement
\* has no effect and the error lands in the catch block.
QueryFails(d) ==
  /\ det[d].pc \in {"select", "update", "insert"}
  /\ det' = [det EXCEPT ![d] = DetCaught([det[d] EXCEPT !.failed = det[d].pc])]
  /\ UNCHANGED <<gatewayVars, client, network, subs, retry, clock, resolverVars, storeVars, samplerVars>>

\* The invocation has returned to its caller.
DetReturns(d) ==
  /\ det[d].pc = "done"
  /\ det' = [det EXCEPT ![d] = IdleDet]
  /\ UNCHANGED <<gatewayVars, client, network, subs, retry, clock, resolverVars, storeVars, samplerVars>>

\* No other invocation is in flight.
Serialized(d) == \A e \in Invocations \ {d} : det[e].pc = "idle"

----------------------------------------------------------------------------
(* getMetricsWithRetry, getNetworkMetrics and startContinuousMonitoring *)

\* process.env.METRICS_INTERVAL, here 3000 ms (the default is '5000')
METRICS_INTERVAL == 3
\* process.env.ISP_CHECK_INTERVAL, here 3000 ms (the default is '30000')
ISP_CHECK_INTERVAL == 3
\* the default of getMetricsWithRetry's `retries`
retries == 3

\* the six sub-fetches getNetworkMetrics joins with Promise.all
SubFetches ==
  {"networkStats", "latency", "publicIpInfo", "cpuLoad", "memory", "uptime"}
\* those that call the systeminformation library
Probes == SubFetches \ {"publicIpInfo"}

\* the slots of getNetworkMetrics() invocations, and the slot of the
\* checkAndLogIspChange() each of them awaits
Samplings == {"s1", "s2"}
DetOf == [s1 |-> "d1", s2 |-> "d2"]

IdleSample ==
  [pc |-> "idle", n |-> 0, role |-> "", now |-> 0, results |-> NULL]

\* what the system probe behind a sub-fetch of sample n reports
Reading(n) == [sample |-> n]

\* the records getPublicIpInfo can hand to a sample
Identities ==
  {ProviderRecord("ipApi", net) : net \in Networks} \cup {MockRecord}

\* getMetricsWithRetry(fn) when the first `failures` calls of fn throw: it
\* settles with fn's value as soon as a call returns, and with the error of
\* the last call once `retries` calls have thrown.
GetMetricsWithRetry(failures, value) ==
  IF failures < retries
    THEN [st |-> "ok", v |-> value]
    ELSE [st |-> "failed", v |-> NULL]

\* How often the fn of each probe throws in a row: on every call for the
\* probes in `down`, `flaky` times for the others.
Failures(down, flaky) ==
  [k \in Probes |-> IF k \in down THEN retries ELSE flaky]

\* the sets of probes that are down during a sample: none, any one, all
Outages == {{}} \cup {{k} : k \in Probes} \cup {Probes}

\* The six wrapped sub-fetches of sample n, settled: each probe's fn throws
\* failures[k] times in a row; getPublicIpInfo has no throw and returns info.
SubFetchResults(n, failures, info) ==
  [k \in SubFetches |->
     IF k = "publicIpInfo"
       THEN GetMetricsWithRetry(0, info)
       ELSE GetMetricsWithRetry(failures[k], Reading(n))]

\* (variant: the join waits for all and rejects never, as allSettled does)
PromiseAllSettled(sub) == "fulfilled"

\* Promise.all over the sub-fetches: rejected with the first rejection,
\* fulfilled with all the values when all are fulfilled.
PromiseAll(sub) ==
  IF \E k \in SubFetches : sub[k].st = "failed"
    THEN "rejected"
    ELSE "fulfilled"

\* (variant: the mock record is not taken for an observation)
IspCheckDueRealOnly(info, now) ==
  /\ info # NULL /\ info.isp # "" /\ info.ip # ""
  /\ info.isp # "Unknown"
  /\ now - lastIspCheck >= ISP_CHECK_INTERVAL

\* `publicIpInfo && publicIpInfo.isp && publicIpInfo.ip &&
\*  (now - lastIspCheck >= ISP_CHECK_INTERVAL)`
IspCheckDue(info, now) ==
  /\ info # NULL /\ info.isp # "" /\ info.ip # ""
  /\ now - lastIspCheck >= ISP_CHECK_INTERVAL

\* FORMAT(SYSDATETIMEOFFSET() ..., 'yyyy-MM-dd HH:mm:ss'): the store's time
Formatted(time) == [time |-> time]

\* the object getNetworkMetrics returns
Snapshot(timestamp, sub) ==
  [timestamp |-> timestamp,
   publicIpInfo |-> sub["publicIpInfo"].v,
   systemMetrics |->
     [cpuLoad |-> sub["cpuLoad"].v, memoryUsed |-> sub["memory"].v,
      uptime |-> sub["uptime"].v],
   networkMetrics |->
     [stats |-> sub["networkStats"].v, latency |-> sub["latency"].v]]

\* (variant: the new snapshot is written into the old one field by field,
\* and the network metrics are still the old ones)
PublishedFieldByField(current, result) ==
  IF current # NULL /\ result # NULL
    THEN [result EXCEPT !.networkMetrics = current.networkMetrics]
    ELSE result

\* What the caller of getNetworkMetrics does with the value it awaited:
\* `currentMetrics = await getNetworkMetrics()`.
Published(current, result) == result

\* (variant: a sample that returns null stops the timers)
TimersAfterStopOnNull(timers, role, result) ==
  IF result = NULL THEN 0
  ELSE IF role = "initial" THEN timers + 1 ELSE timers

\* The interval timers once the caller has its value: startContinuousMonitoring
\* goes on to setInterval whatever the initial sample returned; the callback
\* of the timer clears nothing.
TimersAfter(timers, role, result) ==
  IF role = "initial" THEN timers + 1 ELSE timers

\* getNetworkMetrics() of slot s returns `result`: its caller stores it, and
\* startContinuousMonitoring then sets the interval timer. `exhausted` tells
\* whether a sub-fetch of the sample had used up its retries.
Returns(s, exhausted, result) ==
  /\ currentMetrics' = Published(currentMetrics, result)
  /\ samplingTimers' = TimersAfter(samplingTimers, smp[s].role, result)
  /\ lastReturn' =
       [n |-> smp[s].n, value |-> result, exhausted |-> exhausted,
        pool |-> pool]

\* The statement after the ISP check: `await pool.request().query(...)` for
\* the timestamp. With `pool` undefined it throws into the catch block and
\* getNetworkMetrics returns null.
ToTimestamp(s, rec) ==
  IF pool
    THEN /\ smp' = [smp EXCEPT ![s] = [rec EXCEPT !.pc = "timestamp"]]
         /\ UNCHANGED <<currentMetrics, samplingTimers, lastReturn>>
    ELSE /\ smp' = [smp EXCEPT ![s] = IdleSample]
         /\ Returns(s, FALSE, NULL)

\* getNetworkMetrics() is invoked in slot s: the six sub-fetches start.
Invoke(s, role) ==
  /\ smp[s].pc = "idle"
  /\ started < MaxSamples
  /\ started' = started + 1
  /\ smp' = [smp EXCEPT ![s] =
       [IdleSample EXCEPT !.pc = "join", !.n = started + 1, !.role = role]]

\* startServer goes on to startContinuousMonitoring, whose first statement
\* awaits the initial getNetworkMetrics().
StartContinuousMonitoring(s) ==
  /\ server = "up"
  /\ started = 0
  /\ Invoke(s, "initial")
  /\ UNCHANGED <<gatewayVars, client, network, subs, retry, clock, resolverVars, storeVars, det, lastIspCheck,
                 currentMetrics, samplingTimers, lastReturn>>

\* process.on('uncaughtException') or process.on('unhandledRejection'): the
\* handler logs and calls startContinuousMonitoring() again, which awaits a
\* getNetworkMetrics() and then sets one more interval timer. No timer is
\* cleared.
RestartMonitoring(s) ==
  /\ server = "up"
  /\ started > 0
  /\ Invoke(s, "initial")
  /\ UNCHANGED <<gatewayVars, client, network, subs, retry, clock, resolverVars, storeVars, det,
                 lastIspCheck, currentMetrics, samplingTimers, lastReturn>>

\* The interval timer fires: the callback awaits getNetworkMetrics().
SamplingTimerFires(s) ==
  /\ samplingTimers > 0
  /\ Invoke(s, "tick")
  /\ UNCHANGED <<gatewayVars, client, network, subs, retry, clock, resolverVars, storeVars, det, lastIspCheck,
                 currentMetrics, samplingTimers, lastReturn>>

\* The Promise.all of sample s is decided. The sub-fetches write nothing the
\* server keeps, so their settling is part of this step. Rejected,
\* getNetworkMetrics returns null; fulfilled, it runs the ISP check if it is
\* due and awaits checkAndLogIspChange, or goes straight on to the timestamp.
PromiseAllDecided(s, failures, info) ==
  /\ smp[s].pc = "join"
  /\ LET sub == SubFetchResults(smp[s].n, failures, info)
         rec == [smp[s] EXCEPT !.results = sub, !.now = clock]
     IN IF PromiseAll(sub) = "rejected"
          THEN /\ smp' = [smp EXCEPT ![s] = IdleSample]
               /\ Returns(s, \E k \in Probes : failures[k] >= retries, NULL)
               /\ UNCHANGED det
          ELSE IF IspCheckDue(info, clock)
            THEN /\ det[DetOf[s]].pc = "idle"
                 /\ det' = [det EXCEPT ![DetOf[s]] =
                              DetInvoked(info.isp, info.ip)]
                 /\ smp' = [smp EXCEPT ![s] = [rec EXCEPT !.pc = "ispCheck"]]
                 /\ UNCHANGED <<currentMetrics, samplingTimers, lastReturn>>
            ELSE /\ ToTimestamp(s, rec)
                 /\ UNCHANGED det
  /\ UNCHANGED <<gatewayVars, client, network, subs, retry, clock, resolverVars, storeVars, lastIspCheck, started>>

\* checkAndLogIspChange has returned: `lastIspCheck = now`, then the
\* timestamp query.
IspCheckReturns(s) ==
  /\ smp[s].pc = "ispCheck"
  /\ det[DetOf[s]].pc = "done"
  /\ det' = [det EXCEPT ![DetOf[s]] = IdleDet]
  /\ lastIspCheck' = smp[s].now
  /\ ToTimestamp(s, smp[s])
  /\ UNCHANGED <<gatewayVars, client, network, subs, retry, clock, resolverVars, storeVars, started>>

\* The timestamp query answers: the snapshot is assembled and returned.
TimestampAnswers(s) ==
  /\ smp[s].pc = "timestamp"
  /\ smp' = [smp EXCEPT ![s] = IdleSample]
  /\ Returns(s, FALSE, Snapshot(Formatted(clock), smp[s].results))
  /\ UNCHANGED <<gatewayVars, client, network, subs, retry, clock, resolverVars, storeVars, det, lastIspCheck, started>>

\* The timestamp query fails: the catch block returns null.
TimestampFails(s) ==
  /\ smp[s].pc = "timestamp"
  /\ smp' = [smp EXCEPT ![s] = IdleSample]
  /\ Returns(s, FALSE, NULL)
  /\ UNCHANGED <<gatewayVars, client, network, subs, retry, clock, resolverVars, storeVars, det, lastIspCheck, started>>

----------------------------------------------------------------------------
(* wss.on('connection'): the dashboards *)

\* the slots of WebSocket connections
Subscribers == {"w1", "w2"}

\* state: "none" before the connection, "open" while ws.readyState is OPEN,
\* "closing" once it is not and the 'close' event is still to come, "closed"
\* after the 'close' handler. timer: the connection's setInterval is set.
\* fired: flips each time the callback of the timer runs. last: the message
\* sent last on the connection.
NoSocket == [state |-> "none", timer |-> FALSE, fired |-> FALSE, last |-> NULL]

\* JSON.stringify(m)
Serialize(m) == [json |-> m]

\* (variant: the handler sends nothing on connection)
SentOnConnectionNothing(current, last) == last

\* `if (currentMetrics) ws.send(JSON.stringify(currentMetrics))`: the message
\* the connection has received last, after the statement
SentOnConnection(current, last) ==
  IF current # NULL THEN Serialize(current) ELSE last

\* `if (currentMetrics && ws.readyState === ws.OPEN) ws.send(...)`
SentOnTick(current, state, last) ==
  IF current # NULL /\ state = "open" THEN Serialize(current) ELSE last

\* (variant: the 'close' handler leaves the timer)
TimerAfterCloseKept(timer) == timer

\* `clearInterval(interval)` in the 'close' handler
TimerAfterClose(timer) == FALSE

\* A dashboard connects: the handler sends the current metrics if there are
\* any, and sets the connection's interval timer.
Connection(w) ==
  /\ subs[w].state = "none"
  /\ subs' = [subs EXCEPT ![w] =
       [state |-> "open", timer |-> TRUE, fired |-> FALSE,
        last |-> SentOnConnection(currentMetrics, subs[w].last)]]
  /\ UNCHANGED <<gatewayVars, client, network, clock, resolverVars, storeVars, det, samplerVars, retry>>

\* The interval timer of connection w fires.
PushTimerFires(w) ==
  /\ subs[w].timer
  /\ subs' = [subs EXCEPT ![w] =
       [@ EXCEPT !.fired = ~@,
                 !.last = SentOnTick(currentMetrics, subs[w].state, @)]]
  /\ UNCHANGED <<gatewayVars, client, network, clock, resolverVars, storeVars, det, samplerVars, retry>>

\* The connection starts to close or is lost: ws.readyState is OPEN no more.
ChannelCloses(w) ==
  /\ subs[w].state = "open"
  /\ subs' = [subs EXCEPT ![w] = [@ EXCEPT !.state = "closing"]]
  /\ UNCHANGED <<gatewayVars, client, network, clock, resolverVars, storeVars, det, samplerVars, retry>>

\* The 'close' event of connection w is handled.
OnClose(w) ==
  /\ subs[w].state = "closing"
  /\ subs' = [subs EXCEPT ![w] =
       [@ EXCEPT !.state = "closed", !.timer = TimerAfterClose(@)]]
  /\ UNCHANGED <<gatewayVars, client, network, clock, resolverVars, storeVars, det, samplerVars, retry>>

----------------------------------------------------------------------------
(* getMetricsWithRetry, call by call *)

\* the slots of getMetricsWithRetry() invocations: two sub-fetches of one
\* Promise.all
Wrapped == {"f1", "f2"}

\* i: the loop variable. calls: how often fn has been called. calledAt,
\* failedAt: when fn was called last and when it threw last. wake: when the
\* setTimeout of the back-off is due. waits: the delays waited so far.
IdleRetry ==
  [pc |-> "idle", i |-> 0, calls |-> 0, calledAt |-> 0, failedAt |-> 0,
   wake |-> 0, waits |-> <<>>, result |-> NULL]

\* (variant: the same delay after every failure)
BackoffConstant(i) == 1

\* `1000 * (i + 1)`, in seconds
Backoff(i) == 1 * (i + 1)

\* getMetricsWithRetry(fn) is invoked: fn is called.
GetMetricsWithRetryInvoked(f) ==
  /\ retry[f].pc = "idle"
  /\ retry' = [retry EXCEPT ![f] =
       [IdleRetry EXCEPT !.pc = "calling", !.calls = 1, !.calledAt = clock]]
  /\ UNCHANGED <<gatewayVars, client, network, clock, resolverVars, storeVars, det, samplerVars, subs>>

\* fn() returns a value: getMetricsWithRetry returns it.
FnReturns(f) ==
  /\ retry[f].pc = "calling"
  /\ retry' = [retry EXCEPT ![f] =
       [@ EXCEPT !.pc = "returned",
                 !.result = [st |-> "ok", v |-> Reading(1)]]]
  /\ UNCHANGED <<gatewayVars, client, network, clock, resolverVars, storeVars, det, samplerVars, subs>>

\* fn() throws: on the last round the error is thrown on, otherwise the
\* back-off timer is set.
FnThrows(f) ==
  /\ retry[f].pc = "calling"
  /\ retry' = [retry EXCEPT ![f] =
       IF retry[f].i = retries - 1
         THEN [@ EXCEPT !.pc = "thrown", !.failedAt = clock,
                        !.result = [st |-> "failed", v |-> NULL]]
         ELSE [@ EXCEPT !.pc = "backoff", !.failedAt = clock,
                        !.wake = clock + Backoff(retry[f].i),
                        !.waits = Append(@, Backoff(retry[f].i))]]
  /\ UNCHANGED <<gatewayVars, client, network, clock, resolverVars, storeVars, det, samplerVars, subs>>

\* The back-off timer fires: the next round of the loop calls fn again.
BackoffEnds(f) ==
  /\ retry[f].pc = "backoff"
  /\ clock >= retry[f].wake
  /\ retry' = [retry EXCEPT ![f] =
       [@ EXCEPT !.pc = "calling", !.i = @ + 1, !.calls = @ + 1,
                 !.calledAt = clock, !.wake = 0]]
  /\ UNCHANGED <<gatewayVars, client, network, clock, resolverVars, storeVars, det, samplerVars, subs>>

----------------------------------------------------------------------------
(* logGatewayStatus and GET /api/gateway-status *)

\* what ping.promise.probe(GATEWAY_IP, ...) may do: resolve with alive true,
\* resolve with alive false (timeout, unreachable), or reject
ProbeOutcomes == {"alive", "dead", "error"}

\* pc: "idle", "probe" (awaiting the probe), "insert" (awaiting the INSERT of
\* the probed status), "fallback" (awaiting the INSERT in the catch block).
\* runs: invocations so far. probe: what the probe of this run did. inserts:
\* the INSERTs this run has sent, each with its status and, once it is
\* settled, whether it succeeded. during: the sample that was in flight when
\* the probe settled, 0 if none was.
IdleGateway ==
  [pc |-> "idle", runs |-> 0, probe |-> "none", inserts |-> <<>>,
   during |-> 0]

\* (variant: the two statuses are exchanged)
ProbeStatusInverted(alive) == IF alive THEN "down" ELSE "up"

\* (variant: whatever the probe says, the status is 'up')
ProbeStatusAlwaysUp(alive) == "up"

\* `result.alive ? 'up' : 'down'`
ProbeStatus(alive) == IF alive THEN "up" ELSE "down"

\* (variant: the INSERT replaces the rows of the table)
InsertGatewayLogReplacing(rows, status) ==
  <<[id |-> 1, status |-> status]>>

\* INSERT INTO dbo.gateway_log (status) VALUES (@status): id is the IDENTITY
\* column. (The timestamp column takes its default and is left out.)
InsertGatewayLog(rows, status) ==
  Append(rows, [id |-> Len(rows) + 1, status |-> status])

\* the INSERT sent last by the run is settled
Settled(inserts, ok) ==
  [inserts EXCEPT ![Len(inserts)] = [@ EXCEPT !.ok = ok]]

\* (variant: the catch block sends the probed status again)
OnGatewayErrorSameStatus(rec, status) ==
  [rec EXCEPT !.pc = "fallback",
              !.inserts = Append(@, [status |-> status, ok |-> FALSE])]

\* The outer catch block of logGatewayStatus: whatever was thrown, by the
\* probe or by the INSERT of `status`, one INSERT with 'down' is sent.
OnGatewayError(rec, status) ==
  [rec EXCEPT !.pc = "fallback",
              !.inserts = Append(@, [status |-> "down", ok |-> FALSE])]

\* The inner catch block: console.error, and the function returns.
OnDbError == "returned"

\* logGatewayStatus returns (or throws): what the run did, and the rows the
\* table has after it beyond those it had before.
GatewayRun(rec, hadPool, outcome, rows) ==
  [pool |-> hadPool, probe |-> rec.probe, inserts |-> rec.inserts,
   during |-> rec.during, outcome |-> outcome,
   appended |-> SubSeq(rows, Len(gatewayLog) + 1, Len(rows))]

\* the invocation slot after a run
AfterRun(rec) == [IdleGateway EXCEPT !.runs = rec.runs]

\* The interval timer of startServer fires and logGatewayStatus is invoked.
\* The timer is set once startContinuousMonitoring has returned, that is
\* after its setInterval. With `pool` undefined the function returns at
\* once. (A run is over long before the next one: the probe has a timeout of
\* 2 s, the queries one of 15 s, the interval is 60 s.)
GatewayTimerFires ==
  /\ server = "up"
  /\ samplingTimers > 0
  /\ gw.pc = "idle"
  /\ gw.runs < MaxProbes
  /\ LET rec == [gw EXCEPT !.runs = @ + 1]
     IN IF pool
          THEN /\ gw' = [rec EXCEPT !.pc = "probe"]
               /\ UNCHANGED lastRun
          ELSE /\ gw' = AfterRun(rec)
               /\ lastRun' = GatewayRun(rec, FALSE, "returned", gatewayLog)
  /\ UNCHANGED <<gatewayLog, reply, client, network, subs, retry, clock, resolverVars, storeVars,
                 det, samplerVars>>

\* the sample in flight, if any
SampleInFlight ==
  IF \E s \in Samplings : smp[s].pc # "idle"
    THEN smp[CHOOSE s \in Samplings : smp[s].pc # "idle"].n
    ELSE 0

\* The probe resolves: the INSERT of the status is sent.
GatewayProbeAnswers(alive) ==
  /\ gw.pc = "probe"
  /\ gw' = [gw EXCEPT !.pc = "insert",
                      !.probe = IF alive THEN "alive" ELSE "dead",
                      !.during = SampleInFlight,
                      !.inserts = <<[status |-> ProbeStatus(alive),
                                     ok |-> FALSE]>>]
  /\ UNCHANGED <<gatewayLog, lastRun, reply, client, network, subs, retry, clock, resolverVars,
                 storeVars, det, samplerVars>>

\* The probe rejects: the catch block sends the fallback INSERT.
GatewayProbeThrows ==
  /\ gw.pc = "probe"
  /\ gw' = OnGatewayError([gw EXCEPT !.probe = "error",
                                     !.during = SampleInFlight], "down")
  /\ UNCHANGED <<gatewayLog, lastRun, reply, client, network, subs, retry, clock, resolverVars,
                 storeVars, det, samplerVars>>

\* The INSERT of the probed status is executed and answers: the function
\* returns.
GatewayInsertAnswers ==
  /\ gw.pc = "insert"
  /\ LET rec == [gw EXCEPT !.inserts = Settled(@, TRUE)]
     IN /\ gatewayLog' = InsertGatewayLog(gatewayLog, gw.inserts[1].status)
        /\ lastRun' = GatewayRun(rec, TRUE, "returned", gatewayLog')
        /\ gw' = AfterRun(rec)
  /\ UNCHANGED <<reply, client, network, subs, retry, clock, resolverVars, storeVars, det,
                 samplerVars>>

\* The INSERT of the probed status fails: the catch block sends the fallback
\* INSERT.
GatewayInsertFails ==
  /\ gw.pc = "insert"
  /\ gw' = OnGatewayError(gw, gw.inserts[1].status)
  /\ UNCHANGED <<gatewayLog, lastRun, reply, client, network, subs, retry, clock, resolverVars,
                 storeVars, det, samplerVars>>

\* The fallback INSERT is executed and answers: the function returns.
GatewayFallbackAnswers ==
  /\ gw.pc = "fallback"
  /\ LET rec == [gw EXCEPT !.inserts = Settled(@, TRUE)]
     IN /\ gatewayLog' =
             InsertGatewayLog(gatewayLog, gw.inserts[Len(gw.inserts)].status)
        /\ lastRun' = GatewayRun(rec, TRUE, "returned", gatewayLog')
        /\ gw' = AfterRun(rec)
  /\ UNCHANGED <<reply, client, network, subs, retry, clock, resolverVars, storeVars, det,
                 samplerVars>>

\* The fallback INSERT fails too: the error is logged, the function returns.
GatewayFallbackFails ==
  /\ gw.pc = "fallback"
  /\ lastRun' = GatewayRun(gw, TRUE, OnDbError, gatewayLog)
  /\ gw' = AfterRun(gw)
  /\ UNCHANGED <<gatewayLog, reply, client, network, subs, retry, clock, resolverVars, storeVars,
                 det, samplerVars>>

\* app.get('/api/gateway-status'): the handler probes the gateway itself and
\* answers with what the probe said; when the probe rejects it answers 500
\* with status 'down'.
GatewayStatusReply(outcome) ==
  IF outcome = "error"
    THEN [probe |-> outcome, code |-> 500, status |-> "down"]
    ELSE [probe |-> outcome, code |-> 200,
          status |-> ProbeStatus(outcome = "alive")]

\* A dashboard asks for the gateway status and is answered.
GatewayStatusRequest(outcome) ==
  /\ server = "up"
  /\ reply' = GatewayStatusReply(outcome)
  /\ UNCHANGED <<gatewayLog, gw, lastRun, client, network, subs, retry, clock, resolverVars,
                 storeVars, det, samplerVars>>

----------------------------------------------------------------------------
(* App.tsx: the dashboard's WebSocket *)

\* the slots of dashboards open in browsers
Dashboards == {"b1", "b2"}

\* ws: "connecting" once the effect has created the WebSocket, "open",
\* "closed". isConnected, metrics: the component's state. received: the
\* message that arrived last on the socket.
NoDashboard ==
  [ws |-> "none", isConnected |-> FALSE, metrics |-> NULL, received |-> NULL]

\* JSON.parse(event.data)
Parse(message) == message.json

\* the messages the server may push: its snapshots, serialized
Pushed ==
  {Serialize(Snapshot(Formatted(BootTime),
                      SubFetchResults(n, Failures({}, 0), info))) :
     n \in 1..MaxSamples, info \in Identities}

\* (variant: the 'close' handler leaves the metrics)
MetricsOnCloseKept(metrics) == metrics

\* `setMetrics(null)` in ws.onclose
MetricsOnClose(metrics) == NULL

\* The component mounts: the effect creates the WebSocket.
Mount(b) ==
  /\ client[b].ws = "none"
  /\ client' = [client EXCEPT ![b] = [@ EXCEPT !.ws = "connecting"]]
  /\ UNCHANGED <<gatewayVars, network, subs, retry, clock, resolverVars, storeVars, det,
                 samplerVars>>

\* ws.onopen
WsOnOpen(b) ==
  /\ client[b].ws = "connecting"
  /\ client' = [client EXCEPT ![b] =
       [@ EXCEPT !.ws = "open", !.isConnected = TRUE]]
  /\ UNCHANGED <<gatewayVars, network, subs, retry, clock, resolverVars, storeVars, det,
                 samplerVars>>

\* ws.onmessage: the message is parsed and becomes the metrics shown.
WsOnMessage(b, message) ==
  /\ client[b].ws = "open"
  /\ client' = [client EXCEPT ![b] =
       [@ EXCEPT !.isConnected = TRUE, !.metrics = Parse(message),
                 !.received = message]]
  /\ UNCHANGED <<gatewayVars, network, subs, retry, clock, resolverVars, storeVars, det,
                 samplerVars>>

\* ws.onclose: the connection could not be made, was lost or was closed.
WsOnClose(b) ==
  /\ client[b].ws \in {"connecting", "open"}
  /\ client' = [client EXCEPT ![b] =
       [@ EXCEPT !.ws = "closed", !.isConnected = FALSE,
                 !.metrics = MetricsOnClose(@)]]
  /\ UNCHANGED <<gatewayVars, network, subs, retry, clock, resolverVars, storeVars, det,
                 samplerVars>>

\* what the effect on [metrics, gatewayStatus, isConnected] puts in the
\* title for a dashboard without connection or without metrics
Disconnected(d) == ~d.isConnected \/ d.metrics = NULL

----------------------------------------------------------------------------

Init ==
  /\ clock = BootTime
  /\ cachedIpInfo = NULL
  /\ lastCall = [p \in Providers |-> 0]
  /\ call = [c \in Callers |-> IdleCall]
  /\ lastResolve = NULL
  /\ issued = [p \in Providers |-> 0]
  /\ server = "init"
  /\ pool = FALSE
  /\ swap = <<>>
  /\ det = [d \in Invocations |-> IdleDet]
  /\ lastIspCheck = 0
  /\ currentMetrics = NULL
  /\ samplingTimers = 0
  /\ smp = [s \in Samplings |-> IdleSample]
  /\ started = 0
  /\ lastReturn = NULL
  /\ subs = [w \in Subscribers |-> NoSocket]
  /\ retry = [f \in Wrapped |-> IdleRetry]
  /\ gatewayLog = <<>>
  /\ gw = IdleGateway
  /\ lastRun = NULL
  /\ reply = NULL
  /\ client = [b \in Dashboards |-> NoDashboard]
  /\ network = <<"Acme", "1.2.3.4">>

NextResolver ==
  \/ Tick
  \/ \E c \in Callers : GetPublicIpInfo(c)
  \/ \E c \in Callers : RateLimitWaitEnds(c)
  \/ \E c \in Callers : IpifyAddressReceived(c)
  \/ \E c \in Callers : ProviderSucceeds(c)
  \/ \E c \in Callers : ProviderFails(c)

SpecResolver == Init /\ [][NextResolver]_vars

\* The resolver, one invocation at a time, with the payloads a service may
\* answer with HTTP 200 that do not describe a network.
NextPayload ==
  \/ Tick
  \/ GetPublicIpInfo("r1")
  \/ RateLimitWaitEnds("r1")
  \/ IpifyAddressReceived("r1")
  \/ ProviderSucceeds("r1")
  \/ ProviderFails("r1")
  \/ ProviderAnswersIncomplete("r1")
  \/ ProviderAnswersUnreadable("r1")

SpecPayload == Init /\ [][NextPayload]_vars

\* Every request is answered or runs into its timeout of 5 s, every timer
\* that is due fires, and time goes on.
FairPayload ==
  /\ WF_vars(Tick)
  /\ WF_vars(RateLimitWaitEnds("r1"))
  /\ WF_vars(\/ IpifyAddressReceived("r1")
             \/ ProviderSucceeds("r1")
             \/ ProviderFails("r1")
             \/ ProviderAnswersIncomplete("r1")
             \/ ProviderAnswersUnreadable("r1"))

SpecPayloadFair == Init /\ [][NextPayload]_vars /\ FairPayload

\* The gateway task and the status route, after startServer and the initial
\* sample of startContinuousMonitoring.
NextGateway ==
  \/ StartServer
  \/ StartContinuousMonitoring("s1")
  \/ \E down \in {{}, Probes}, info \in Identities :
       PromiseAllDecided("s1", Failures(down, 0), info)
  \/ IspCheckReturns("s1")
  \/ TimestampAnswers("s1")
  \/ TimestampFails("s1")
  \/ SelectAnswers("d1")
  \/ InsertAnswers("d1")
  \/ QueryFails("d1")
  \/ GatewayTimerFires
  \/ \E alive \in BOOLEAN : GatewayProbeAnswers(alive)
  \/ GatewayProbeThrows
  \/ GatewayInsertAnswers
  \/ GatewayInsertFails
  \/ GatewayFallbackAnswers
  \/ GatewayFallbackFails
  \/ \E outcome \in ProbeOutcomes : GatewayStatusRequest(outcome)

SpecGateway == Init /\ [][NextGateway]_vars

\* The gateway task beside the sampling loop, one sample at a time.
NextGatewaySampling ==
  \/ StartServer
  \/ StartContinuousMonitoring("s1")
  \/ SamplingTimerFires("s1")
  \/ \E down \in {{}, Probes}, info \in Identities :
       PromiseAllDecided("s1", Failures(down, 0), info)
  \/ IspCheckReturns("s1")
  \/ TimestampAnswers("s1")
  \/ TimestampFails("s1")
  \/ SelectAnswers("d1")
  \/ InsertAnswers("d1")
  \/ QueryFails("d1")
  \/ GatewayTimerFires
  \/ \E alive \in BOOLEAN : GatewayProbeAnswers(alive)
  \/ GatewayProbeThrows
  \/ GatewayInsertAnswers
  \/ GatewayInsertFails
  \/ GatewayFallbackAnswers
  \/ GatewayFallbackFails

SpecGatewaySampling == Init /\ [][NextGatewaySampling]_vars

\* The dashboards in the browsers, with the messages a server may push.
NextClient ==
  \/ \E b \in Dashboards : Mount(b)
  \/ \E b \in Dashboards : WsOnOpen(b)
  \/ \E b \in Dashboards, message \in Pushed : WsOnMessage(b, message)
  \/ \E b \in Dashboards : WsOnClose(b)

SpecClient == Init /\ [][NextClient]_vars

\* The change detector driven with arbitrary observations, one invocation at
\* a time.
NextDetector ==
  \/ StartServer
  \/ \E d \in Invocations, isp \in ISPs, ip \in IPs :
       Serialized(d) /\ CheckAndLogIspChange(d, isp, ip)
  \/ \E d \in Invocations : SelectAnswers(d)
  \/ \E d \in Invocations : UpdateAnswers(d)
  \/ \E d \in Invocations : InsertAnswers(d)
  \/ \E d \in Invocations : QueryFails(d)
  \/ \E d \in Invocations : DetReturns(d)

SpecDetector == Init /\ [][NextDetector]_vars

\* The change detector driven with arbitrary observations, its invocations
\* overlapping as those of two overlapping samples do.
NextConcurrent ==
  \/ StartServer
  \/ \E d \in Invocations, isp \in ISPs, ip \in IPs :
       CheckAndLogIspChange(d, isp, ip)
  \/ \E d \in Invocations : SelectAnswers(d)
  \/ \E d \in Invocations : UpdateAnswers(d)
  \/ \E d \in Invocations : InsertAnswers(d)
  \/ \E d \in Invocations : QueryFails(d)
  \/ \E d \in Invocations : DetReturns(d)

SpecConcurrent == Init /\ [][NextConcurrent]_vars

\* The sampling loop: startServer, the initial sample, the interval timer,
\* and the change detector the samples invoke.
NextSampler ==
  \/ StartServer
  \/ \E s \in Samplings : StartContinuousMonitoring(s)
  \/ \E s \in Samplings : SamplingTimerFires(s)
  \/ \E s \in Samplings, down \in Outages, flaky \in 0..(retries - 1),
        info \in Identities :
       PromiseAllDecided(s, Failures(down, flaky), info)
  \/ \E s \in Samplings : IspCheckReturns(s)
  \/ \E s \in Samplings : TimestampAnswers(s)
  \/ \E s \in Samplings : TimestampFails(s)
  \/ \E d \in Invocations : SelectAnswers(d)
  \/ \E d \in Invocations : UpdateAnswers(d)
  \/ \E d \in Invocations : InsertAnswers(d)
  \/ \E d \in Invocations : QueryFails(d)

Spec == Init /\ [][NextSampler]_vars

\* The sampling loop on its schedule, with getPublicIpInfo and
\* checkAndLogIspChange as getNetworkMetrics calls them, while the network
\* the host is attached to changes. The storage connects and its queries
\* answer, a service that answers reports the network as it is, and a sample
\* is through within the second it started in.

\* the interval timer, set when the initial sample returned, is due
SampleDue ==
  /\ samplingTimers > 0
  /\ clock = BootTime + started * METRICS_INTERVAL

\* the time of the last sample that starts within the bounds
LastSampleTime ==
  LET byTime == MaxTime \div METRICS_INTERVAL
      byCount == MaxSamples - 1
  IN BootTime + METRICS_INTERVAL * (IF byTime < byCount THEN byTime ELSE byCount)

\* startServer with initializePool succeeding
SteadyStartServer ==
  /\ StartServer
  /\ pool'

\* The host moves to another network, while a sample is still to come.
NetworkChanges ==
  /\ clock < LastSampleTime
  /\ \E net \in Networks \ {network} : network' = net
  /\ UNCHANGED <<gatewayVars, client, subs, retry, clock, resolverVars,
                 storeVars, det, samplerVars>>

\* getNetworkMetrics() is invoked, by startContinuousMonitoring or by the
\* timer: building the array for Promise.all invokes getPublicIpInfo.
SteadySampleStarts ==
  /\ server = "up"
  /\ \/ started = 0 /\ Invoke("s1", "initial")
     \/ SampleDue /\ Invoke("s1", "tick")
  /\ GetPublicIpInfoInvoked("r1")
  /\ UNCHANGED <<gatewayVars, client, network, subs, retry, clock,
                 cachedIpInfo, lastCall, storeVars, det, lastIspCheck,
                 currentMetrics, samplingTimers, lastReturn>>

\* The service that was asked reports the network the host is attached to.
SteadyProviderSucceeds ==
  /\ ProviderSucceeds("r1")
  /\ lastResolve'.result.isp = network[1]
  /\ lastResolve'.result.ip = network[2]

\* A service other than the last fails.
SteadyProviderFails ==
  /\ call["r1"].idx < Len(apiServices)
  /\ ProviderFails("r1")

\* getPublicIpInfo has returned and the other sub-fetches settle: all
\* fulfilled, or the probes out of their retries.
SteadyPromiseAllDecided ==
  /\ call["r1"].pc = "idle"
  /\ lastResolve # NULL
  /\ \E down \in {{}, Probes} :
       PromiseAllDecided("s1", Failures(down, 0), lastResolve.result)

\* A second passes while no sample is in flight and none is due.
SteadyTick ==
  /\ started > 0
  /\ smp["s1"].pc = "idle"
  /\ ~SampleDue
  /\ Tick

NextSteady ==
  \/ SteadyStartServer
  \/ NetworkChanges
  \/ SteadySampleStarts
  \/ IpifyAddressReceived("r1")
  \/ SteadyProviderSucceeds
  \/ SteadyProviderFails
  \/ SteadyPromiseAllDecided
  \/ SelectAnswers("d1")
  \/ UpdateAnswers("d1")
  \/ InsertAnswers("d1")
  \/ IspCheckReturns("s1")
  \/ TimestampAnswers("s1")
  \/ SteadyTick

\* Every step of the server that can be taken is taken, and time goes on.
FairSteady ==
  /\ WF_vars(SteadyStartServer)
  /\ WF_vars(SteadySampleStarts)
  /\ WF_vars(\/ IpifyAddressReceived("r1")
             \/ SteadyProviderSucceeds
             \/ SteadyProviderFails)
  /\ WF_vars(SteadyPromiseAllDecided)
  /\ WF_vars(SelectAnswers("d1") \/ UpdateAnswers("d1") \/ InsertAnswers("d1"))
  /\ WF_vars(IspCheckReturns("s1") \/ TimestampAnswers("s1"))
  /\ WF_vars(SteadyTick)

SpecSteady == Init /\ [][NextSteady]_vars /\ FairSteady

\* The sampling loop with the handlers of uncaught errors.
NextRestart ==
  \/ StartServer
  \/ \E s \in Samplings : StartContinuousMonitoring(s)
  \/ \E s \in Samplings : RestartMonitoring(s)
  \/ \E s \in Samplings : SamplingTimerFires(s)
  \/ \E s \in Samplings, down \in {{}, Probes}, info \in Identities :
       PromiseAllDecided(s, Failures(down, 0), info)
  \/ \E s \in Samplings : IspCheckReturns(s)
  \/ \E s \in Samplings : TimestampAnswers(s)
  \/ \E s \in Samplings : TimestampFails(s)
  \/ \E d \in Invocations : SelectAnswers(d)
  \/ \E d \in Invocations : UpdateAnswers(d)
  \/ \E d \in Invocations : InsertAnswers(d)
  \/ \E d \in Invocations : QueryFails(d)

SpecRestart == Init /\ [][NextRestart]_vars

\* The sampling loop, one sample at a time, while time passes: the gate of
\* the ISP check closes and opens again.
NextGated ==
  \/ StartServer
  \/ Tick
  \/ StartContinuousMonitoring("s1")
  \/ SamplingTimerFires("s1")
  \/ \E down \in {{}, Probes}, info \in Identities :
       PromiseAllDecided("s1", Failures(down, 0), info)
  \/ IspCheckReturns("s1")
  \/ TimestampAnswers("s1")
  \/ TimestampFails("s1")
  \/ SelectAnswers("d1")
  \/ UpdateAnswers("d1")
  \/ InsertAnswers("d1")
  \/ QueryFails("d1")

SpecGated == Init /\ [][NextGated]_vars

\* The sampling loop with its scheduling: startServer runs, a timer that is
\* set fires, and every awaited request or query is answered or fails (the
\* requests and the queries all have timeouts).
FairSampler ==
  /\ WF_vars(StartServer)
  /\ \A s \in Samplings :
       WF_vars(\/ StartContinuousMonitoring(s)
               \/ SamplingTimerFires(s)
               \/ \E down \in Outages, flaky \in 0..(retries - 1),
                     info \in Identities :
                    PromiseAllDecided(s, Failures(down, flaky), info)
               \/ IspCheckReturns(s)
               \/ TimestampAnswers(s)
               \/ TimestampFails(s))
  /\ \A d \in Invocations :
       WF_vars(SelectAnswers(d) \/ UpdateAnswers(d) \/ InsertAnswers(d)
                 \/ QueryFails(d))

SpecFair == Init /\ [][NextSampler]_vars /\ FairSampler

\* The dashboards and the sampling loop that feeds them, one sample at a
\* time. (With one sample at a time and the clock at rest, the change
\* detector runs once, on the empty table.)
NextBroadcast ==
  \/ StartServer
  \/ StartContinuousMonitoring("s1")
  \/ SamplingTimerFires("s1")
  \/ \E down \in {{}, Probes}, info \in Identities :
       PromiseAllDecided("s1", Failures(down, 0), info)
  \/ IspCheckReturns("s1")
  \/ TimestampAnswers("s1")
  \/ TimestampFails("s1")
  \/ SelectAnswers("d1")
  \/ InsertAnswers("d1")
  \/ QueryFails("d1")
  \/ \E w \in Subscribers : Connection(w)
  \/ \E w \in Subscribers : PushTimerFires(w)
  \/ \E w \in Subscribers : ChannelCloses(w)
  \/ \E w \in Subscribers : OnClose(w)

SpecBroadcast == Init /\ [][NextBroadcast]_vars

\* getMetricsWithRetry with an fn that returns or throws as it likes.
NextRetry ==
  \/ Tick
  \/ \E f \in Wrapped : GetMetricsWithRetryInvoked(f)
  \/ \E f \in Wrapped : FnReturns(f)
  \/ \E f \in Wrapped : FnThrows(f)
  \/ \E f \in Wrapped : BackoffEnds(f)

SpecRetry == Init /\ [][NextRetry]_vars

----------------------------------------------------------------------------
(* The resolver: claims C1, C9, C10 *)

\* the services before service p in the order of apiServices
Before(p) ==
  {apiServices[j] : j \in {i \in 1..Len(apiServices) :
                             \E k \in (i + 1)..Len(apiServices) : apiServices[k] = p}}

\* a cache entry that is less than CACHE_DURATION old at time `now`
FreshAt(entry, now) == entry # NULL /\ now - entry.timestamp < CACHE_DURATION

\* C1: getPublicIpInfo never throws, and an invocation that found no fresh
\* cache entry returns the record of the first service, in the order
\* ip-api.com, freeipapi.com, ipwho.is, ipify.org, that did not fail; when all
\* four failed it returns the cached data if there is a cache entry, however
\* old, and the mock record otherwise.
C1_FirstSuccessOrCacheOrMock ==
  /\ \A c \in Callers : call[c].pc # "thrown"
  /\ (lastResolve # NULL /\ ~FreshAt(lastResolve.seen, lastResolve.now)) =>
       IF lastResolve.failed = Providers
         THEN /\ lastResolve.fetched = "none"
              /\ lastResolve.result =
                   IF cachedIpInfo # NULL THEN cachedIpInfo.data ELSE MockRecord
         ELSE /\ lastResolve.fetched \in Providers
              /\ lastResolve.failed = Before(lastResolve.fetched)
              /\ lastResolve.result.source = SourceOf[lastResolve.fetched]
              /\ lastResolve.result.source # "mock"

\* C1, witness: every service failed and the entry in the cache, older than
\* CACHE_DURATION, was returned.
C1_Witness ==
  /\ lastResolve # NULL
  /\ lastResolve.failed = Providers
  /\ cachedIpInfo # NULL
  /\ lastResolve.now - cachedIpInfo.timestamp >= CACHE_DURATION
  /\ lastResolve.result = cachedIpInfo.data

\* C9: an invocation that finds a cache entry less than CACHE_DURATION old
\* returns at once with that entry's data: it is never found waiting on a
\* rate limiter or a request, it has contacted no service, and no service's
\* last-call time was written for it.
C9_FreshCacheServedWithoutProvider ==
  /\ \A c \in Callers :
       call[c].pc # "idle" => ~FreshAt(call[c].seen, call[c].now)
  /\ (lastResolve # NULL /\ FreshAt(lastResolve.seen, lastResolve.now)) =>
       /\ lastResolve.result = cachedIpInfo.data
       /\ lastResolve.contacted = <<>>
       /\ lastResolve.failed = {}
       /\ lastResolve.fetched = "none"

\* C9, witness: an invocation was served from a fresh cache entry after the
\* clock had moved on from the entry's timestamp.
C9_Witness ==
  /\ lastResolve # NULL
  /\ FreshAt(lastResolve.seen, lastResolve.now)
  /\ lastResolve.now > lastResolve.seen.timestamp
  /\ lastResolve.fetched = "none"

\* no getPublicIpInfo() is in flight
NoCallInFlight == \A c \in Callers : call[c].pc = "idle"

\* C10: when the invocation that returned last got its record from a service
\* and nothing is in flight, an invocation made less than CACHE_DURATION
\* after that one was invoked returns at once with the same data, having
\* contacted no service and written no last-call time. (With nothing in
\* flight, a step that leaves the clock alone is an invocation.)
C10_SecondCallWithinDurationHitsCache ==
  [][(/\ NoCallInFlight
      /\ lastResolve # NULL
      /\ lastResolve.fetched \in Providers
      /\ clock' = clock
      /\ clock - lastResolve.now < CACHE_DURATION) =>
        /\ NoCallInFlight'
        /\ lastResolve'.now = clock
        /\ lastResolve'.result = lastResolve.result
        /\ lastResolve'.fetched = "none"
        /\ lastResolve'.contacted = <<>>
        /\ lastCall' = lastCall
        /\ cachedIpInfo' = cachedIpInfo]_vars

\* C10, witness: with nothing in flight, an invocation has been served the
\* record a service had given to an invocation made two seconds before it.
C10_Witness ==
  /\ NoCallInFlight
  /\ lastResolve # NULL
  /\ lastResolve.fetched = "none"
  /\ lastResolve.contacted = <<>>
  /\ cachedIpInfo # NULL
  /\ lastResolve.now = cachedIpInfo.timestamp + 2
  /\ lastResolve.result = cachedIpInfo.data

\* C13: whenever a provider function issues its request, the request it
\* issued before that, answered or failed, is at least the service's
\* API_RATE_LIMITS old. The limiter compares with the time of the last
\* answered request only, and two invocations pass it together.
C13_RequestsSpaced ==
  [][\A c \in Callers :
       RequestIssued(call[c], call'[c]) =>
         clock - issued[apiServices[call'[c].idx]] >=
           API_RATE_LIMITS[apiServices[call'[c].idx]]]_vars

\* the service the invocation in slot c is at
At(c) == apiServices[call[c].idx]

\* C21: a provider function issues each of its requests once per call, and a
\* request that errors, times out or is answered with a payload that is
\* malformed fails the fetch: nothing of it is cached, and what an invocation
\* got from a service is the record of a network. Only getIpApiInfo checks
\* its payload.
C21_MalformedPayloadFailsTheFetch ==
  /\ \A c \in Callers :
       \A i, j \in 1..Len(call[c].contacted) :
         call[c].contacted[i] = call[c].contacted[j] => i = j
  /\ cachedIpInfo # NULL =>
       \E p \in Providers, net \in Networks :
         cachedIpInfo.data = ProviderRecord(p, net)
  /\ (lastResolve # NULL /\ lastResolve.fetched \in Providers) =>
       \E net \in Networks :
         lastResolve.result = ProviderRecord(lastResolve.fetched, net)

\* C22: getPublicIpInfo, once invoked, returns: whatever the services
\* answer, the invocation does not stay at a request or at a limiter. (An
\* invocation that waits for a limiter when the explored time ends is left
\* waiting.)
C22_ResolveReturns ==
  (call["r1"].pc # "idle")
    ~> (\/ call["r1"].pc = "idle"
        \/ call["r1"].pc = "sleep" /\ call["r1"].wake > BootTime + MaxTime)

\* C22, witness: an invocation has seen the four services fail one after
\* the other, with time passing while it was in flight, and has returned the
\* mock record.
C22_Witness ==
  /\ call["r1"].pc = "idle"
  /\ lastResolve # NULL
  /\ lastResolve.contacted = apiServices
  /\ lastResolve.failed = Providers
  /\ lastResolve.result = MockRecord
  /\ clock > lastResolve.now

\* C27: a step writes the last-call time of no service but the one whose
\* answer it handles; and a caller put to sleep by the limiter of a service
\* wakes one limit after a last-call time of that same service.
C27_LimitersIndependent ==
  [][\A c \in Callers :
       /\ (call[c].pc \in {"request", "request2"} /\ call'[c] # call[c]) =>
            \A q \in Providers \ {At(c)} : lastCall'[q] = lastCall[q]
       /\ call[c].pc \in {"idle", "sleep"} /\ call'[c] # call[c] =>
            lastCall' = lastCall
       /\ (call'[c].pc = "sleep" /\ call[c].pc # "sleep") =>
            call'[c].wake =
              lastCall[apiServices[call'[c].idx]]
                + API_RATE_LIMITS[apiServices[call'[c].idx]]]_vars

\* C27, witness: a caller sleeps on the limiter of the second service, which
\* has just answered another caller, while the first service has never
\* answered.
C27_Witness ==
  \E c \in Callers :
    /\ call[c].pc = "sleep"
    /\ At(c) = "freeIpApi"
    /\ lastCall["freeIpApi"] = clock
    /\ lastCall["ipApi"] = 0
    /\ call[c].wake = clock + 1

\* C29: the cache entry a successful fetch stores has the time of the
\* moment it is stored. The entry is given `now`, read when getPublicIpInfo
\* was invoked, before the waits and the failed services.
C29_CacheStampedWhenStored ==
  [][cachedIpInfo' # cachedIpInfo => cachedIpInfo'.timestamp = clock]_vars

\* C33: a step that writes the cache handles the answer of a service to the
\* invocation that then returns that answer's record, and the entry holds
\* that record; an invocation that returns without a record of a service
\* (cache hit, expired entry after the four failures, mock record) leaves
\* the entry, data and timestamp, as it was; the mock record is never in
\* the cache, and when it is returned there is no entry.
C33_CacheWrittenOnlyOnSuccess ==
  [][/\ cachedIpInfo' # cachedIpInfo =>
          /\ \E c \in Callers :
               /\ AwaitingAnswer(c)
               /\ call'[c].pc = "idle"
               /\ lastResolve'.fetched = At(c)
          /\ cachedIpInfo'.data = lastResolve'.result
     /\ (lastResolve' # lastResolve /\ lastResolve'.fetched = "none") =>
          cachedIpInfo' = cachedIpInfo
     /\ (lastResolve' # lastResolve /\ lastResolve'.result = MockRecord) =>
          cachedIpInfo' = NULL
     /\ cachedIpInfo' # NULL => cachedIpInfo'.data # MockRecord]_vars

\* C33, witness: an invocation has returned the mock record after the four
\* services failed, there is no cache entry, and the next invocation is at
\* the request of the first service.
C33_Witness ==
  /\ lastResolve # NULL
  /\ lastResolve.result = MockRecord
  /\ lastResolve.failed = Providers
  /\ cachedIpInfo = NULL
  /\ call["r2"].pc = "idle"
  /\ call["r1"].pc = "request"
  /\ call["r1"].idx = 1
  /\ call["r1"].now >= lastResolve.now

\* the first n services, in order
FirstServices(n) == SubSeq(apiServices, 1, n)

\* the elements of a sequence
Range(seq) == {seq[i] : i \in 1..Len(seq)}

\* C30: an invocation that missed the cache has contacted the first
\* services of the order, one after the other and each once, and all of
\* them but the one it is waiting for have failed; the invocation that
\* returned the record of a service had contacted that service last, and
\* the record carries the service's source and is the one in the cache.
C30_ProvidersInOrder ==
  /\ \A c \in Callers :
       call[c].pc # "idle" =>
         /\ call[c].contacted = FirstServices(Len(call[c].contacted))
         /\ call[c].pc = "sleep" =>
              /\ Len(call[c].contacted) = call[c].idx - 1
              /\ call[c].failed = Range(call[c].contacted)
         /\ call[c].pc \in {"request", "request2"} =>
              /\ Len(call[c].contacted) = call[c].idx
              /\ call[c].failed = Range(FirstServices(call[c].idx - 1))
  /\ (lastResolve # NULL /\ lastResolve.fetched \in Providers) =>
       LET n == Len(lastResolve.contacted)
       IN /\ lastResolve.contacted = FirstServices(n)
          /\ lastResolve.contacted[n] = lastResolve.fetched
          /\ lastResolve.failed = Range(FirstServices(n - 1))
          /\ lastResolve.result.source = SourceOf[lastResolve.fetched]
          /\ cachedIpInfo # NULL /\ cachedIpInfo.data = lastResolve.result

\* C30, witness: ip-api.com failed, freeipapi.com answered with Acme at
\* 1.2.3.4, and that record was returned and cached.
C30_Witness ==
  /\ lastResolve # NULL
  /\ lastResolve.contacted = <<"ipApi", "freeIpApi">>
  /\ lastResolve.failed = {"ipApi"}
  /\ lastResolve.fetched = "freeIpApi"
  /\ lastResolve.result =
       [ip |-> "1.2.3.4", isp |-> "Acme", source |-> "freeipapi.com"]
  /\ cachedIpInfo.data = lastResolve.result

----------------------------------------------------------------------------
(* The gateway probe: claims C23, C24, C25, C26 *)

\* the probe of the run found the gateway down or could not be made
ProbeFailed(run) == run.probe \in {"dead", "error"}

\* an INSERT of the run succeeded
Persisted(run) == \E i \in 1..Len(run.inserts) : run.inserts[i].ok

\* C23 as stated: a run whose probe failed has appended a row with status
\* 'down', and the status route reports 'down' for a failed probe. The row
\* is missing when the INSERT and its fallback both fail.
C23_FailedProbeAppendsDown ==
  /\ (lastRun # NULL /\ ProbeFailed(lastRun)) =>
       /\ Len(lastRun.appended) = 1
       /\ lastRun.appended[1].status = "down"
       /\ lastRun.outcome = "returned"
  /\ (reply # NULL /\ ProbeFailed(reply)) => reply.status = "down"

\* C23: a run whose probe failed sends INSERTs with status 'down' only and
\* returns without throwing; it has appended the one row with 'down' when
\* one of its INSERTs succeeded, and no row otherwise. The status route
\* answers a failed probe with status 'down' (with code 500 when the probe
\* rejected).
C23_FailedProbeInsertsDown ==
  /\ (gw.pc # "idle" /\ ProbeFailed(gw)) =>
       \A i \in 1..Len(gw.inserts) : gw.inserts[i].status = "down"
  /\ (lastRun # NULL /\ ProbeFailed(lastRun)) =>
       /\ Len(lastRun.inserts) >= 1
       /\ \A i \in 1..Len(lastRun.inserts) : lastRun.inserts[i].status = "down"
       /\ lastRun.outcome = "returned"
       /\ IF Persisted(lastRun)
            THEN /\ Len(lastRun.appended) = 1
                 /\ lastRun.appended[1].status = "down"
            ELSE lastRun.appended = <<>>
  /\ (reply # NULL /\ ProbeFailed(reply)) =>
       /\ reply.status = "down"
       /\ reply.code = IF reply.probe = "error" THEN 500 ELSE 200

\* C23, witness: the probe of the last run found the gateway down, the
\* INSERT of 'down' succeeded and its row is the last of the table; the
\* status route has answered a dead probe with 'down'.
C23_Witness ==
  /\ lastRun # NULL
  /\ lastRun.probe = "dead"
  /\ lastRun.inserts = <<[status |-> "down", ok |-> TRUE]>>
  /\ gatewayLog # <<>>
  /\ lastRun.appended = <<gatewayLog[Len(gatewayLog)]>>
  /\ gatewayLog[Len(gatewayLog)].status = "down"
  /\ reply # NULL
  /\ reply.probe = "dead"
  /\ reply.status = "down"

\* C24 as stated: every run of logGatewayStatus appends one row. A run with
\* `pool` undefined, and a run whose INSERTs both fail, append none.
C24_EveryRunAppendsOneRow ==
  lastRun # NULL => Len(lastRun.appended) = 1

\* C24: a step that changes dbo.gateway_log is the return of a run after an
\* INSERT, and it appends one row and leaves the rows before it as they
\* were; a run appends one row when `pool` is connected and one of its
\* INSERTs succeeds, and none otherwise; there are never more rows than
\* runs.
C24_AtMostOneRowPerRunAppendOnly ==
  [][/\ gatewayLog' # gatewayLog =>
          /\ Len(gatewayLog') = Len(gatewayLog) + 1
          /\ SubSeq(gatewayLog', 1, Len(gatewayLog)) = gatewayLog
          /\ gw.pc \in {"insert", "fallback"}
          /\ gw'.pc = "idle"
     /\ gw'.pc = "idle" /\ gw.pc # "idle" =>
          /\ lastRun'.appended =
               SubSeq(gatewayLog', Len(gatewayLog) + 1, Len(gatewayLog'))
          /\ Len(lastRun'.appended) =
               IF lastRun'.pool /\ Persisted(lastRun') THEN 1 ELSE 0
     /\ (gw'.runs = gw.runs + 1 /\ gw'.pc = "idle") =>
          /\ ~lastRun'.pool
          /\ lastRun'.appended = <<>>
          /\ gatewayLog' = gatewayLog
     /\ Len(gatewayLog') <= gw'.runs]_vars

\* C24, witness: three runs are over and the table has two rows: the last
\* run appended the second one, and one run appended nothing.
C24_Witness ==
  /\ gw.pc = "idle"
  /\ gw.runs = 3
  /\ Len(gatewayLog) = 2
  /\ lastRun # NULL
  /\ lastRun.appended = <<gatewayLog[2]>>

\* C25: a run sends the fallback INSERT, with status 'down', only after its
\* probe rejected or its first INSERT failed, and sends it once: a run
\* whose first INSERT failed has sent exactly that INSERT and the fallback;
\* when the fallback fails too nothing is appended and the run returns
\* without throwing.
C25_OneFallbackInsertThenGiveUp ==
  /\ gw.pc = "fallback" =>
       /\ gw.inserts[Len(gw.inserts)].status = "down"
       /\ Len(gw.inserts) = IF gw.probe = "error" THEN 1 ELSE 2
  /\ lastRun # NULL =>
       /\ Len(lastRun.inserts) <= 2
       /\ lastRun.outcome = "returned"
       /\ (lastRun.probe \in {"alive", "dead"} /\ ~lastRun.inserts[1].ok) =>
            /\ Len(lastRun.inserts) = 2
            /\ lastRun.inserts[2].status = "down"
            /\ ~lastRun.inserts[2].ok => lastRun.appended = <<>>
       /\ (lastRun.probe \in {"alive", "dead"} /\ lastRun.inserts[1].ok) =>
            Len(lastRun.inserts) = 1
       /\ lastRun.probe = "error" => Len(lastRun.inserts) = 1

\* C25, witness: the gateway answered the probe, the INSERT of 'up' failed,
\* the fallback INSERT of 'down' failed too, and the run returned with the
\* table as it was.
C25_Witness ==
  /\ lastRun # NULL
  /\ lastRun.probe = "alive"
  /\ lastRun.inserts = <<[status |-> "up", ok |-> FALSE],
                         [status |-> "down", ok |-> FALSE]>>
  /\ lastRun.appended = <<>>
  /\ lastRun.outcome = "returned"
  /\ gw.pc = "idle"

\* C39: a row with status 'up' is written only by a run whose probe found
\* the gateway alive and whose first INSERT succeeded; the row of any other
\* run that writes one has status 'down'; a run with `pool` undefined makes
\* no probe and sends no INSERT, and with `pool` undefined the table stays
\* empty.
C39_UpOnlyWhenAlive ==
  /\ lastRun # NULL =>
       /\ lastRun.appended # <<>> =>
            lastRun.appended[1].status =
              IF lastRun.probe = "alive" /\ lastRun.inserts[1].ok
                THEN "up" ELSE "down"
       /\ ~lastRun.pool =>
            /\ lastRun.probe = "none"
            /\ lastRun.inserts = <<>>
            /\ lastRun.appended = <<>>
  /\ ~pool => gatewayLog = <<>>
  /\ \A i \in 1..Len(gatewayLog) : gatewayLog[i].status \in {"up", "down"}

\* C39, witness: a run whose probe found the gateway alive lost its first
\* INSERT and wrote 'down'; the next run found the gateway alive again and
\* wrote 'up'.
C39_Witness ==
  /\ Len(gatewayLog) = 2
  /\ gatewayLog[1].status = "down"
  /\ gatewayLog[2].status = "up"
  /\ gw.runs = 2
  /\ lastRun # NULL
  /\ lastRun.probe = "alive"
  /\ lastRun.inserts = <<[status |-> "up", ok |-> TRUE]>>

\* C26: the snapshot of a sample that was in flight when the probe found
\* the gateway down carries the gateway status 'down'. getNetworkMetrics
\* puts no gateway status into its snapshot.
C26_SnapshotCarriesGatewayDown ==
  (/\ lastRun # NULL
   /\ lastRun.probe = "dead"
   /\ lastReturn # NULL
   /\ lastReturn.n = lastRun.during
   /\ lastReturn.value # NULL) =>
     /\ "gatewayStatus" \in DOMAIN lastReturn.value
     /\ lastReturn.value.gatewayStatus = "down"

----------------------------------------------------------------------------
(* The dashboard: claim C28 *)

\* C28: a dashboard whose socket is open shows the snapshot parsed from the
\* message it received last (nothing before the first message); once the
\* socket has closed the dashboard is not connected, its metrics are
\* cleared, and it shows the disconnected title.
C28_ClientShowsLatestAndClearsOnClose ==
  \A b \in Dashboards :
    /\ client[b].ws = "open" =>
         /\ client[b].isConnected
         /\ client[b].metrics =
              IF client[b].received = NULL THEN NULL
              ELSE Parse(client[b].received)
    /\ client[b].ws = "closed" =>
         /\ ~client[b].isConnected
         /\ client[b].metrics = NULL
         /\ Disconnected(client[b])

\* C28, witness: one dashboard has received a snapshot and then lost its
\* socket; the other is open and shows the snapshot of the second sample
\* it has just received.
C28_Witness ==
  /\ client["b1"].ws = "closed"
  /\ client["b1"].received # NULL
  /\ client["b1"].metrics = NULL
  /\ client["b2"].ws = "open"
  /\ client["b2"].received # NULL
  /\ client["b2"].metrics = Parse(client["b2"].received)
  /\ client["b2"].metrics.systemMetrics.uptime = Reading(2)

----------------------------------------------------------------------------
(* The sampling loop: claims C2, C3, C4 *)

\* getNetworkMetrics() of some slot returns in this step
SampleReturns == \E s \in Samplings : smp[s].pc # "idle" /\ smp'[s].pc = "idle"

\* C2: a sample that returns null leaves the current snapshot as it was, and
\* once a snapshot is published the current snapshot is never null again.
\* The code assigns whatever getNetworkMetrics returned, null included.
C2_NullSampleKeepsSnapshot ==
  [][/\ (SampleReturns /\ lastReturn'.value = NULL) =>
          currentMetrics' = currentMetrics
     /\ currentMetrics # NULL => currentMetrics' # NULL]_vars

\* every field of a snapshot holds a value
Populated(m) ==
  /\ m.timestamp # NULL
  /\ m.publicIpInfo # NULL
  /\ m.systemMetrics.cpuLoad # NULL
  /\ m.systemMetrics.memoryUsed # NULL
  /\ m.systemMetrics.uptime # NULL
  /\ m.networkMetrics.stats # NULL
  /\ m.networkMetrics.latency # NULL

\* C3: getNetworkMetrics returns null whenever a sub-fetch has failed on all
\* its attempts; whatever else it returns has timestamp, publicIpInfo,
\* systemMetrics and networkMetrics populated, and so has the current
\* snapshot whenever there is one.
C3_AllOrNothing ==
  /\ lastReturn # NULL =>
       /\ lastReturn.exhausted => lastReturn.value = NULL
       /\ lastReturn.value # NULL => Populated(lastReturn.value)
  /\ currentMetrics # NULL => Populated(currentMetrics)

\* C3, witness: a sample with an exhausted sub-fetch has returned null after
\* an earlier sample had returned a snapshot.
C3_Witness ==
  /\ lastReturn # NULL
  /\ lastReturn.exhausted
  /\ lastReturn.value = NULL
  /\ lastReturn.n > 1
  /\ lastIspCheck > 0

\* C4: a sample all of whose six sub-fetches succeeded returns a snapshot,
\* whatever the state of the store. The code awaits a query of the store for
\* the timestamp and returns null when `pool` is undefined or the query fails.
C4_StoreOffHotPath ==
  (lastReturn # NULL /\ ~lastReturn.exhausted) => lastReturn.value # NULL

----------------------------------------------------------------------------
(* The change detector, one invocation at a time: claims C5, C6, C7, C8 *)

Active(rows, isp) ==
  {i \in 1..Len(rows) : rows[i].isp = isp /\ rows[i].uplink = 1}

\* C5: whatever observations the detector is given, one invocation after the
\* other, and whichever of its queries fail, no ISP ever has more than one
\* row with uplink = 1.
C5_AtMostOneActivePerIsp ==
  \A isp \in ISPs : Cardinality(Active(swap, isp)) <= 1

\* C5, witness: the detector has come back to an ISP it had logged before.
C5_Witness ==
  /\ Len(swap) >= 3
  /\ swap[1].isp = swap[3].isp
  /\ swap[2].isp # swap[1].isp
  /\ swap[1].uplink = 0 /\ swap[3].uplink = 1

\* C6: once the table has a row, at every moment the ISP of the latest row
\* has exactly one active row, the latest. The UPDATE and the INSERT are two
\* statements, and between them the table has no active row at all.
C6_ExactlyOneActiveForCurrentIsp ==
  swap # <<>> => Active(swap, swap[Len(swap)].isp) = {Len(swap)}

\* The invocation in slot d has returned and was a transition: the table it
\* was invoked on was empty or ended with another ISP.
TransitionDone(d) ==
  /\ det[d].pc = "done"
  /\ \/ det[d].before = <<>>
     \/ det[d].before[Len(det[d].before)].isp # det[d].newIsp

\* The table is the table before the invocation with the active rows of the
\* previous ISP made inactive and one row (newIsp, newIp, active) appended.
TransitionRecorded(d) ==
  LET b == det[d].before
  IN /\ Len(swap) = Len(b) + 1
     /\ swap[Len(swap)] =
          [isp |-> det[d].newIsp, ip |-> det[d].newIp, uplink |-> 1]
     /\ \A i \in 1..Len(b) :
          /\ swap[i].isp = b[i].isp
          /\ swap[i].ip = b[i].ip
          /\ swap[i].uplink =
               IF b[i].isp = b[Len(b)].isp THEN 0 ELSE b[i].uplink

C8_UnchangedIspIsNoOp ==
  \A d \in Invocations :
    (/\ det[d].pc = "done"
     /\ det[d].before # <<>>
     /\ det[d].before[Len(det[d].before)].isp = det[d].newIsp)
      => swap = det[d].before

\* C8, witness: the same ISP was observed again with another ip, and the
\* SELECT answered.
C8_Witness ==
  \E d \in Invocations :
    /\ det[d].pc = "done" /\ det[d].ok
    /\ det[d].before # <<>>
    /\ det[d].before[Len(det[d].before)].isp = det[d].newIsp
    /\ det[d].before[Len(det[d].before)].ip # det[d].newIp
    /\ det[d].lastLog # <<>>

\* C20: a step never removes a row of the table nor changes the isp or the
\* ip of one, and the only change to uplink is from 1 to 0.
C20_RowsKeptAndOnlyDeactivated ==
  [][/\ Len(swap') >= Len(swap)
     /\ \A i \in 1..Len(swap) :
          /\ swap'[i].isp = swap[i].isp
          /\ swap'[i].ip = swap[i].ip
          /\ swap'[i].uplink <= swap[i].uplink]_vars

\* C20, witness: the first row has been made inactive and two rows have been
\* inserted after it.
C20_Witness ==
  /\ Len(swap) = 3
  /\ swap[1].uplink = 0
  /\ swap[2].uplink = 0
  /\ swap[3].uplink = 1

\* the rows with uplink = 1, of whatever ISP
AllActive(rows) == {i \in 1..Len(rows) : rows[i].uplink = 1}

\* C31: with two invocations of checkAndLogIspChange in flight together, in
\* whatever order their SELECT, UPDATE and INSERT are executed, no ISP has
\* two rows with uplink = 1. The three statements are in no transaction:
\* two invocations that both read the same latest row both insert.
C31_AtMostOneActiveUnderInterleaving ==
  \A i, j \in 1..Len(swap) :
    (/\ swap[i].isp = swap[j].isp
     /\ swap[i].uplink = 1
     /\ swap[j].uplink = 1) => i = j

\* C34: with one invocation at a time, the table never has two rows with
\* uplink = 1, and a row with uplink = 1 is the latest row; an invocation
\* that is about to insert after a latest row of another ISP has had its
\* UPDATE executed, and the table has no row with uplink = 1 then.
C34_OnlyLatestRowActive ==
  /\ AllActive(swap) \subseteq {Len(swap)}
  /\ \A d \in Invocations :
       (det[d].pc = "insert" /\ det[d].lastLog # <<>>) =>
         /\ AllActive(swap) = {}
         /\ swap = MarkInactive(det[d].before, det[d].lastLog[1].isp)

\* C34, witness: a transition away from Acme, whose row was active, is
\* between its UPDATE and its INSERT.
C34_Witness ==
  \E d \in Invocations :
    /\ det[d].pc = "insert"
    /\ det[d].lastLog # <<>>
    /\ det[d].before[Len(det[d].before)] =
         [isp |-> "Acme", ip |-> "1.2.3.4", uplink |-> 1]
    /\ det[d].newIsp = "Globex"
    /\ swap[Len(swap)].uplink = 0

\* the latest row of a table
Latest(rows) == rows[Len(rows)]

\* C36: an invocation whose INSERT fails after its UPDATE returns to its
\* caller without throwing, and leaves the table of before with the rows of
\* the previous ISP inactive and no row inserted; an invocation that then
\* finds the latest row inactive and of another ISP than the one it
\* observes, and whose queries answer, appends the one active row of the
\* observed ISP and changes nothing else.
C36_FailedInsertRepairedByNextInvocation ==
  \A d \in Invocations :
    /\ det[d].failed # "" => det[d].pc = "done"
    /\ (det[d].failed = "insert" /\ det[d].lastLog # <<>>) =>
         /\ swap = MarkInactive(det[d].before, det[d].lastLog[1].isp)
         /\ Active(swap, det[d].lastLog[1].isp) = {}
         /\ Active(swap, det[d].newIsp) = {}
    /\ (/\ det[d].pc = "done" /\ det[d].ok
        /\ det[d].before # <<>>
        /\ Latest(det[d].before).uplink = 0
        /\ Latest(det[d].before).isp # det[d].newIsp) =>
         /\ swap = Append(det[d].before,
                          [isp |-> det[d].newIsp, ip |-> det[d].newIp,
                           uplink |-> 1])
         /\ Active(swap, det[d].newIsp) = {Len(swap)}

\* C36, witness: after Acme, a transition to Globex lost its INSERT; the
\* next invocation observed Globex again and has inserted its row.
C36_Witness ==
  \E d \in Invocations :
    /\ det[d].pc = "done" /\ det[d].ok
    /\ det[d].before = <<[isp |-> "Acme", ip |-> "1.2.3.4", uplink |-> 0]>>
    /\ det[d].newIsp = "Globex"
    /\ Len(swap) = 2
    /\ swap[2].isp = "Globex" /\ swap[2].uplink = 1

----------------------------------------------------------------------------
(* The network changes and the table follows: claim C37 *)

\* The latest row of the table is an active row of the network's ISP, and
\* the rows of any other ISP are inactive.
Recorded(net) ==
  /\ swap # <<>>
  /\ Latest(swap).isp = net[1]
  /\ Latest(swap).uplink = 1
  /\ \A i \in 1..Len(swap) : swap[i].isp # net[1] => swap[i].uplink = 0

\* a sample has returned null since the last snapshot
SampleLost == lastReturn # NULL /\ lastReturn.value = NULL

----------------------------------------------------------------------------
(* The sampling loop under overlapping samples: claims C35, C32, C38 *)

\* the number of the sample a snapshot was assembled by
SampleOf(m) == m.systemMetrics.uptime.sample

\* C35: the current snapshot is never replaced by the snapshot of a sample
\* that started before the one it came from. Two samples of two ticks are
\* in flight together, and each assigns currentMetrics when it returns.
C35_PublishedInSamplingOrder ==
  [][(currentMetrics # NULL /\ currentMetrics' # NULL) =>
       SampleOf(currentMetrics') >= SampleOf(currentMetrics)]_vars

\* C32: however often the monitoring is restarted by the handlers of
\* uncaught errors, one interval timer is running. Each restart sets a
\* timer more and none is cleared.
C32_OneSamplingTimer == samplingTimers <= 1

\* C38: a sample that awaits checkAndLogIspChange has handed it the isp and
\* the ip of the record getPublicIpInfo returned, the mock record like any
\* other; a sample that is past the gate without the check found the gate
\* closed; and the invocation for 'Unknown' whose queries answer records
\* the transition when the latest row is of another ISP, and leaves the
\* table as it is when the latest row is 'Unknown'.
C38_SentinelIsAnObservation ==
  /\ smp["s1"].pc = "ispCheck" =>
       /\ det["d1"].newIsp = smp["s1"].results["publicIpInfo"].v.isp
       /\ det["d1"].newIp = smp["s1"].results["publicIpInfo"].v.ip
  /\ smp["s1"].pc = "timestamp" =>
       smp["s1"].now - lastIspCheck < ISP_CHECK_INTERVAL
  /\ (TransitionDone("d1") /\ det["d1"].ok /\ det["d1"].newIsp = "Unknown") =>
       TransitionRecorded("d1")
  /\ (/\ det["d1"].pc = "done"
      /\ det["d1"].newIsp = "Unknown"
      /\ det["d1"].before # <<>>
      /\ Latest(det["d1"].before).isp = "Unknown") =>
       swap = det["d1"].before

\* C38, witness: after Acme was recorded and the gate has opened again, a
\* sample got the mock record: Acme's row is inactive and an active row of
\* 'Unknown' at 000.000.000.000 is the latest.
C38_Witness ==
  /\ smp["s1"].pc = "ispCheck"
  /\ smp["s1"].results["publicIpInfo"].v = MockRecord
  /\ det["d1"].pc = "done"
  /\ swap = <<[isp |-> "Acme", ip |-> "1.2.3.4", uplink |-> 0],
              [isp |-> "Unknown", ip |-> "000.000.000.000", uplink |-> 1]>>

----------------------------------------------------------------------------
(* The sampling loop under overlapping samples: claims C11, C12 *)

InFlight == {s \in Samplings : smp[s].pc # "idle"}

\* C11: at no time are two getNetworkMetrics() in flight. The callback of
\* setInterval does not look whether the sample of the tick before has
\* returned.
C11_OneSampleInFlight == Cardinality(InFlight) <= 1

\* C12: a sample that is awaiting checkAndLogIspChange read the clock at
\* least ISP_CHECK_INTERVAL after the sample that ran the detector before
\* it, whether that one has returned from it or is still awaiting it. The
\* gate reads lastIspCheck, which is written only after the await.
C12_IspChecksSpaced ==
  \A s \in Samplings : smp[s].pc = "ispCheck" =>
    /\ smp[s].now - lastIspCheck >= ISP_CHECK_INTERVAL
    /\ \A t \in Samplings \ {s} : smp[t].pc = "ispCheck" =>
         \/ smp[s].now - smp[t].now >= ISP_CHECK_INTERVAL
         \/ smp[t].now - smp[s].now >= ISP_CHECK_INTERVAL

----------------------------------------------------------------------------
(* The sampling loop with its scheduling: claims C14, C15 *)

\* the sample started as number k has returned null
FailedCycle(k) ==
  lastReturn # NULL /\ lastReturn.value = NULL /\ lastReturn.n = k

\* C14: no step takes an interval timer away, and once a sample has returned
\* a timer is set; after a sample that returned null a further sample is
\* started (as long as the samples explored are not used up); and a sample
\* that returns a snapshot makes it the current one.
C14_FailedCycleDoesNotStopSampling ==
  /\ [][/\ samplingTimers' >= samplingTimers
        /\ SampleReturns => samplingTimers' > 0
        /\ (SampleReturns /\ lastReturn'.value # NULL) =>
             currentMetrics' = lastReturn'.value]_vars
  /\ \A k \in 1..(MaxSamples - 1) :
       (FailedCycle(k) /\ started = k) ~> (started > k)

\* C14, witness: the initial sample has returned null with a sub-fetch
\* exhausted, the timer has fired since, and the sample of that tick has
\* its sub-fetches joined and awaits the timestamp.
C14_Witness ==
  /\ FailedCycle(1)
  /\ lastReturn.exhausted
  /\ currentMetrics = NULL
  /\ samplingTimers > 0
  /\ \E s \in Samplings : smp[s].pc = "timestamp" /\ smp[s].n = 2

\* C15: when startServer has finished without a connected pool, the startup
\* is run again until the pool is connected. initializePool and
\* initializeDatabase catch their errors, so startServer never reaches the
\* catch block that would schedule the retry. No step of the server writes
\* `pool` after that, so it stays undefined however long the sampling runs.
C15_StartupRetriedUntilConnected == (server = "up" /\ ~pool) ~> pool

----------------------------------------------------------------------------
(* The dashboards: claims C16, C17, C18 *)

\* the callback of the interval timer of connection w runs in this step
PushTick(w) == subs'[w].fired # subs[w].fired

\* C16: a dashboard that connects while there are current metrics is sent
\* them in the connection handler; a connection that is open has its
\* interval timer set, and each time the timer fires on an open connection
\* while there are current metrics, these are sent.
C16_SentOnConnectionAndOnEveryTick ==
  [][\A w \in Subscribers :
       /\ (subs[w].state = "none" /\ subs'[w].state = "open"
             /\ currentMetrics # NULL) =>
            subs'[w].last = Serialize(currentMetrics)
       /\ subs'[w].state = "open" => subs'[w].timer
       /\ (PushTick(w) /\ subs[w].state = "open" /\ currentMetrics # NULL) =>
            subs'[w].last = Serialize(currentMetrics)]_vars

\* C16, witness: two dashboards are connected and the one whose timer has
\* fired holds the snapshot of the second sample, which is the current one.
C16_Witness ==
  /\ subs["w1"].state = "open" /\ subs["w1"].fired
  /\ subs["w2"].state = "open" /\ ~subs["w2"].fired
  /\ currentMetrics # NULL
  /\ currentMetrics.systemMetrics.cpuLoad = Reading(2)
  /\ subs["w1"].last = Serialize(currentMetrics)
  /\ subs["w2"].last = Serialize(currentMetrics)

\* C17: the 'close' handler clears the timer of its connection; a
\* connection that is not open is sent nothing, and nothing at all happens
\* on it once the handler has run; the steps that close a connection leave
\* the current metrics, the sampling loop and the other connections alone.
C17_CloseStopsOnlyItsOwnPushes ==
  [][\A w \in Subscribers :
       /\ (subs[w].state = "closing" /\ subs'[w].state = "closed") =>
            ~subs'[w].timer
       /\ subs[w].state \in {"closing", "closed"} =>
            subs'[w].last = subs[w].last
       /\ subs[w].state = "closed" => subs'[w] = subs[w]
       /\ (subs[w].state \in {"open", "closing"}
             /\ subs'[w].state # subs[w].state) =>
            /\ samplerVars' = samplerVars
            /\ \A v \in Subscribers \ {w} : subs'[v] = subs[v]]_vars

\* C17, witness: one dashboard has closed with the snapshot of the first
\* sample as its last message, and the other has since been sent the
\* current one, of a later sample.
C17_Witness ==
  /\ subs["w1"].state = "closed" /\ ~subs["w1"].timer
  /\ subs["w1"].last # NULL
  /\ subs["w1"].last.json.systemMetrics.cpuLoad = Reading(1)
  /\ subs["w2"].state = "open" /\ subs["w2"].fired
  /\ currentMetrics # NULL
  /\ currentMetrics.systemMetrics.cpuLoad # Reading(1)
  /\ subs["w2"].last = Serialize(currentMetrics)

\* a snapshot with every field populated and all its readings from the
\* same sample
Whole(m) ==
  /\ Populated(m)
  /\ \E n \in 1..MaxSamples :
       /\ m.systemMetrics =
            [cpuLoad |-> Reading(n), memoryUsed |-> Reading(n),
             uptime |-> Reading(n)]
       /\ m.networkMetrics = [stats |-> Reading(n), latency |-> Reading(n)]

\* C18: the current metrics change only when a getNetworkMetrics() returns,
\* to the value it returns; whenever there are current metrics they are a
\* whole snapshot; and every message sent is the serialization of the
\* current metrics of that moment.
C18_MessagesAreWholeSnapshots ==
  [][/\ currentMetrics' # currentMetrics =>
          (SampleReturns /\ currentMetrics' = lastReturn'.value)
     /\ currentMetrics' # NULL => Whole(currentMetrics')
     /\ \A w \in Subscribers :
          subs'[w].last # subs[w].last =>
            /\ currentMetrics # NULL /\ Whole(currentMetrics)
            /\ subs'[w].last = Serialize(currentMetrics)]_vars

\* C18, witness: a dashboard holds the snapshot of the second sample while
\* the third sample's is the current one.
C18_Witness ==
  /\ subs["w1"].last # NULL
  /\ subs["w1"].last.json.systemMetrics.cpuLoad = Reading(2)
  /\ currentMetrics # NULL
  /\ currentMetrics.systemMetrics.cpuLoad = Reading(3)
  /\ subs["w1"].state = "open"

----------------------------------------------------------------------------
(* getMetricsWithRetry: claim C19 *)

\* what an invocation of the wrapper has done so far
RetryContract(f) ==
  LET r == retry[f]
  IN /\ r.calls <= retries
     /\ \A k \in 1..Len(r.waits) : r.waits[k] = k
     /\ r.pc = "calling" =>
          /\ Len(r.waits) = r.calls - 1
          /\ r.calls >= 2 => r.calledAt - r.failedAt >= r.calls - 1
     /\ r.pc = "backoff" =>
          /\ r.calls < retries
          /\ Len(r.waits) = r.calls
          /\ r.wake = r.failedAt + r.calls
     /\ r.pc = "returned" =>
          /\ Len(r.waits) = r.calls - 1
          /\ r.result = GetMetricsWithRetry(r.calls - 1, Reading(1))
          /\ r.result.st = "ok"
     /\ r.pc = "thrown" =>
          /\ r.calls = retries
          /\ Len(r.waits) = retries - 1
          /\ r.result = GetMetricsWithRetry(r.calls, Reading(1))
          /\ r.result.st = "failed"

\* C19: getMetricsWithRetry calls fn at most `retries` (3) times and returns
\* the value of the first call that returns; after the k-th call has
\* thrown (k = 1, 2) it waits k seconds before the next call; when the third
\* call throws it throws at once; and a call of fn in one invocation leaves
\* the other invocation as it is.
C19_BoundedRetryWithLinearBackoff ==
  /\ [](\A f \in Wrapped : RetryContract(f))
  /\ [][\A f \in Wrapped :
          retry'[f].calls # retry[f].calls =>
            \A g \in Wrapped \ {f} : retry'[g] = retry[g]]_vars

\* C19, witness: one invocation has thrown after three calls and waits of
\* 1 s and 2 s, the other has returned the value of its first call.
C19_Witness ==
  /\ retry["f1"].pc = "thrown"
  /\ retry["f1"].waits = <<1, 2>>
  /\ retry["f1"].calls = 3
  /\ retry["f2"].pc = "returned"
  /\ retry["f2"].calls = 1

====
